---- MODULE Spec2Model ----
(***************************************************************************)
(* Model of the GreenTech relay controller (src/unnamed/part_000): the     *)
(* MQTT ingestion handlers, the WebSocket fanout, the dashboard routes     *)
(* and the once-per-minute schedule evaluation.                            *)
(*                                                                         *)
(* Strings that the code compares with < and > are sequences of UTF-16     *)
(* code units, compared as JavaScript compares strings.  Time is counted   *)
(* in minutes; minute 0 is a Sunday 00:00 in Africa/Cairo.                 *)
(***************************************************************************)
EXTENDS Integers, Sequences, FiniteSets, TLC

VARIABLES
    users,            \* User collection: sequence of account documents, _id = position
    statuses,         \* DeviceStatus collection: sequence of status documents
    connectedDevices, \* Map deviceId -> last payload (process-local cache)
    wsClients,        \* Set of sockets registered with the fanout
    readyState,       \* readyState of every socket
    delivered,        \* per socket, the messages written to it by client.send
    published,        \* messages published on green-tech/relay-control
    now,              \* wall clock, minutes
    serverTzLag,      \* hours by which the process-local zone lags Africa/Cairo
    cron,             \* the scheduler's cron job: armed flag, callback position
    tick,             \* the running / last cron callback: captured day, time, outcome
    ops,              \* in-flight and finished asynchronous handlers
    broadcasts        \* log of the calls of broadcastToWebSockets

vars == <<users, statuses, connectedDevices, wsClients, readyState, delivered,
          published, now, serverTzLag, cron, tick, ops, broadcasts>>

-----------------------------------------------------------------------------
(* Bounds of the model *)

MaxTicks == 4
MaxRelays == 1
MaxSchedules == 2
MaxOps == 2
TicksLeft == 2

-----------------------------------------------------------------------------
(* Strings as sequences of code units *)

Min(a, b) == IF a < b THEN a ELSE b

\* JavaScript a < b on strings: the first differing code unit decides, and a
\* proper prefix is smaller than the longer string.
StrLess(a, b) ==
    \/ \E i \in 1..Min(Len(a), Len(b)) :
          /\ a[i] < b[i]
          /\ \A j \in 1..(i - 1) : a[j] = b[j]
    \/ /\ Len(a) < Len(b)
       /\ \A j \in 1..Len(a) : a[j] = b[j]

\* JavaScript a <= b and a >= b on strings
StrLeq(a, b) == a = b \/ StrLess(a, b)
StrGeq(a, b) == StrLeq(b, a)

\* code unit of a decimal digit
Digit(d) == 48 + d

TwoDigits(n) == <<Digit(n \div 10), Digit(n % 10)>>

\* "HH:MM", the form in which the dashboard's time inputs submit a time
HHMM(h, m) == TwoDigits(h) \o <<58>> \o TwoDigits(m)


-----------------------------------------------------------------------------
(* Wall clock *)

MinutesPerDay == 24 * 60
MinutesPerWeek == 7 * MinutesPerDay

HourOf(t) == (t % MinutesPerDay) \div 60
MinuteOf(t) == t % 60

\* weekday (0 = Sunday) of instant t in Africa/Cairo
CairoWeekday(t) == (t \div MinutesPerDay) % 7

\* now.getDay(): the weekday of instant t in the zone of the process
GetDay(t, lag) == ((t + MinutesPerWeek - 60 * lag) \div MinutesPerDay) % 7

\* now.toLocaleTimeString('en-EG', {timeZone: 'Africa/Cairo', hour: '2-digit',
\* minute: '2-digit'}).  The locale's hour cycle is the 12-hour one (as is that
\* of 'en', to which an engine without en-EG data falls back): the result is
\* "hh:mm AM" or "hh:mm PM", midnight and noon written as 12.  Engines differ
\* in the blank before the day period (U+0020 or U+202F); it stands after the
\* fifth code unit and is written here as U+0020.
ToLocaleTimeString(t) ==
    LET h == HourOf(t)
        h12 == IF h % 12 = 0 THEN 12 ELSE h % 12
    IN  HHMM(h12, MinuteOf(t)) \o <<32, IF h < 12 THEN 65 ELSE 80, 77>>

-----------------------------------------------------------------------------
(* Documents *)

\* bcrypt.hash(plain, 12): the digest binds the plaintext to a fresh salt;
\* bcrypt.compare(plain, digest) accepts exactly the plaintext it was made from.
Hash(plain, salt) == [plain |-> plain, salt |-> salt]
Compare(plain, digest) == digest.plain = plain

\* variant: a new account starts with a relay for channel 0
NewUserSeeded(username, password, deviceId, createdAt) ==
    [username |-> username, password |-> password, deviceId |-> deviceId,
     createdAt |-> createdAt,
     dashboard |-> [relays |-> <<[index |-> 0, name |-> "relay", image |-> "",
                                  enabled |-> TRUE, schedules |-> <<>>]>>],
     v |-> 0]

\* new User({username, password, deviceId, dashboard: {relays: []}}); v is the
\* version key (__v) mongoose keeps on every document
NewUser(username, password, deviceId, createdAt) ==
    [username |-> username, password |-> password, deviceId |-> deviceId,
     createdAt |-> createdAt, dashboard |-> [relays |-> <<>>], v |-> 0]

\* a relay sub-document of dashboard.relays
Relay(index, name, image, enabled, schedules) ==
    [index |-> index, name |-> name, image |-> image, enabled |-> enabled,
     schedules |-> schedules]

\* a schedule sub-document of relay.schedules
Schedule(days, startTime, endTime, enabled) ==
    [days |-> days, startTime |-> startTime, endTime |-> endTime, enabled |-> enabled]

-----------------------------------------------------------------------------
(* Relay control *)

\* the number parseInt gives for a text that does not start with digits
NaN == 0 - 999

\* JSON.stringify of a number: NaN is written as null
JsonOfNumber(n) == IF n = NaN THEN "null" ELSE n

\* variant: the message always carries a duration field, 0 when none is given
ControlMessageWithDuration(deviceId, relayIndex, action, duration) ==
    [deviceId |-> deviceId, relay |-> JsonOfNumber(relayIndex), action |-> action,
     duration |-> IF duration # <<>> THEN duration[1] ELSE 0]

\* controlRelay(deviceId, relayIndex, action, duration = null): the message
\* handed to mqttClient.publish, as JSON.stringify writes it; it has a duration
\* field only when a duration is given (<<>> stands for null, <<n>> for n)
ControlMessage(deviceId, relayIndex, action, duration) ==
    IF duration # <<>>
    THEN [deviceId |-> deviceId, relay |-> JsonOfNumber(relayIndex), action |-> action,
          duration |-> duration[1]]
    ELSE [deviceId |-> deviceId, relay |-> JsonOfNumber(relayIndex), action |-> action]

controlRelay(pub, deviceId, relayIndex, action, duration) ==
    Append(pub, ControlMessage(deviceId, relayIndex, action, duration))

-----------------------------------------------------------------------------
(* Scheduler: the cron callback *)

RECURSIVE Flatten(_)
Flatten(ss) == IF ss = <<>> THEN <<>> ELSE Head(ss) \o Flatten(Tail(ss))

isScheduledDay(schedule, currentDay) == currentDay \in schedule.days

\* variant: a window whose end is before its start wraps around midnight
isScheduledTimeWrapping(schedule, currentTime) ==
    IF StrLess(schedule.endTime, schedule.startTime)
    THEN StrGeq(currentTime, schedule.startTime) \/ StrLeq(currentTime, schedule.endTime)
    ELSE StrGeq(currentTime, schedule.startTime) /\ StrLeq(currentTime, schedule.endTime)

isScheduledTime(schedule, currentTime) ==
    StrGeq(currentTime, schedule.startTime) /\ StrLeq(currentTime, schedule.endTime)

\* variant: a tick past the end of the window switches the relay off
ScheduleCommandsAutoOff(user, relay, schedule, currentDay, currentTime) ==
    IF ~schedule.enabled
    THEN <<>>
    ELSE IF isScheduledDay(schedule, currentDay) /\ isScheduledTime(schedule, currentTime)
         THEN controlRelay(<<>>, user.deviceId, relay.index, "on", <<>>)
         ELSE IF isScheduledDay(schedule, currentDay)
                 /\ StrLess(schedule.endTime, currentTime)
              THEN controlRelay(<<>>, user.deviceId, relay.index, "off", <<>>)
              ELSE <<>>

\* body of the innermost loop: the messages one schedule makes the tick publish
ScheduleCommands(user, relay, schedule, currentDay, currentTime) ==
    IF ~schedule.enabled
    THEN <<>>
    ELSE IF isScheduledDay(schedule, currentDay) /\ isScheduledTime(schedule, currentTime)
         THEN controlRelay(<<>>, user.deviceId, relay.index, "on", <<>>)
         ELSE <<>>

\* variant: the relay's enabled flag is not consulted
RelayCommandsIgnoreEnabled(user, relay, currentDay, currentTime) ==
    Flatten([k \in 1..Len(relay.schedules) |->
               ScheduleCommands(user, relay, relay.schedules[k],
                                currentDay, currentTime)])

\* body of the loop over user.dashboard.relays
RelayCommands(user, relay, currentDay, currentTime) ==
    IF ~relay.enabled
    THEN <<>>
    ELSE Flatten([k \in 1..Len(relay.schedules) |->
                    ScheduleCommands(user, relay, relay.schedules[k],
                                     currentDay, currentTime)])

\* the loops over the result of User.find({})
TickCommands(us, currentDay, currentTime) ==
    Flatten([i \in 1..Len(us) |->
               Flatten([j \in 1..Len(us[i].dashboard.relays) |->
                          RelayCommands(us[i], us[i].dashboard.relays[j],
                                        currentDay, currentTime)])])


NoTick == [status |-> "none", day |-> 0, time |-> <<>>, at |-> 0, cmds |-> <<>>]

\* variant: an error in the callback stops the cron job
AfterTickErrorStop(c) == [c EXCEPT !.errors = c.errors + 1, !.armed = FALSE]

\* what the catch block of the callback leaves of the cron job: it only logs
AfterTickError(c) == [c EXCEPT !.errors = c.errors + 1]

\* a minute boundary passes: node-cron runs the callback, which captures the
\* day and the time and awaits User.find({})
CronFire ==
    /\ cron.armed
    /\ tick.status # "finding"
    /\ cron.fired < MaxTicks
    /\ now' = now + 1
    /\ cron' = [cron EXCEPT !.fired = cron.fired + 1]
    /\ tick' = [status |-> "finding", day |-> GetDay(now', serverTzLag),
                time |-> ToLocaleTimeString(now'), at |-> now', cmds |-> <<>>]
    /\ UNCHANGED <<users, statuses, connectedDevices, wsClients, readyState,
                   delivered, published, serverTzLag, ops, broadcasts>>

\* variant: the callback saves again every account it published a command for
TickStoreSaved(us, cmds) ==
    [i \in 1..Len(us) |->
        IF \E n \in 1..Len(cmds) : cmds[n].deviceId = us[i].deviceId
        THEN [us[i] EXCEPT !.v = @ + 1]
        ELSE us[i]]

\* the accounts in the Store after the loops: the callback reads the documents
\* User.find({}) returned and saves none of them
TickStore(us, cmds) == us

\* User.find({}) resolves: the loops run to completion
TickEvaluate ==
    /\ tick.status = "finding"
    /\ LET cmds == TickCommands(users, tick.day, tick.time)
       IN  /\ published' = published \o cmds
           /\ tick' = [tick EXCEPT !.status = "ok", !.cmds = cmds]
           /\ users' = TickStore(users, cmds)
    /\ UNCHANGED <<statuses, connectedDevices, wsClients, readyState,
                   delivered, now, serverTzLag, cron, ops, broadcasts>>

\* User.find({}) rejects: the catch block logs the error
TickFail ==
    /\ tick.status = "finding"
    /\ tick' = [tick EXCEPT !.status = "error"]
    /\ cron' = AfterTickError(cron)
    /\ UNCHANGED <<users, statuses, connectedDevices, wsClients, readyState,
                   delivered, published, now, serverTzLag, ops, broadcasts>>

-----------------------------------------------------------------------------
(* Scheduler specification: stores a dashboard can be brought to, and ticks *)

EmptyMap == [x \in {} |-> x]

Monday == MinutesPerDay

\* instants just before the scheduler's first tick
StartInstants == {Monday + 7 * 60 + 59, Monday + 19 * 60 + 59, Monday + 59}

\* the process runs in Africa/Cairo, or in UTC (two hours behind)
TzLags == {0, 2}

SchedulePool ==
    {Schedule({1}, HHMM(8, 0), HHMM(8, 2), TRUE),
     Schedule({1}, HHMM(8, 1), HHMM(8, 3), TRUE),
     Schedule({1}, HHMM(8, 0), HHMM(8, 2), FALSE),
     Schedule({1}, HHMM(1, 0), HHMM(1, 2), TRUE)}

RelayShapes == {<<0, TRUE>>, <<0, FALSE>>, <<1, TRUE>>}

\* relay lists of at most nr relays holding at most ns schedules in all
RECURSIVE RelayLists(_, _)
RelayLists(nr, ns) ==
    IF nr = 0
    THEN {<<>>}
    ELSE {<<>>} \cup
         UNION {LET rests == RelayLists(nr - 1, ns - k)
                IN  {<<Relay(sh[1], "pump", "pump.png", sh[2], sl)>> \o rest :
                       rest \in rests, sh \in RelayShapes,
                       sl \in [1..k -> SchedulePool]} :
                k \in 0..ns}

OtherUser ==
    [NewUser("bob", Hash("pw2", 1), "dev2", 0) EXCEPT
        !.dashboard.relays =
            <<Relay(0, "lamp", "lamp.png", TRUE,
                    <<Schedule({1}, HHMM(8, 0), HHMM(8, 2), TRUE)>>),
              Relay(1, "fan", "fan.png", FALSE,
                    <<Schedule({1}, HHMM(8, 0), HHMM(8, 2), TRUE)>>)>>]

\* the account under test, followed by a second account with two relays
SchedStores ==
    {<<[NewUser("alice", Hash("pw1", 1), "dev1", 0) EXCEPT
          !.dashboard.relays = rs], OtherUser>> :
       rs \in RelayLists(MaxRelays, MaxSchedules)}

InitQuiet ==
    /\ statuses = <<>>
    /\ connectedDevices = EmptyMap
    /\ wsClients = {}
    /\ readyState = EmptyMap
    /\ delivered = EmptyMap
    /\ published = <<>>
    /\ cron = [armed |-> TRUE, fired |-> 0, errors |-> 0]
    /\ tick = NoTick
    /\ ops = <<>>
    /\ broadcasts = <<>>

InitSched ==
    /\ InitQuiet
    /\ users \in SchedStores
    /\ now \in StartInstants
    /\ serverTzLag \in TzLags

NextSched == CronFire \/ TickEvaluate \/ TickFail

SpecSched == InitSched /\ [][NextSched]_vars


-----------------------------------------------------------------------------
(* Properties of the scheduler *)

\* positions <<account, relay, schedule>> of the schedules held in store us
SchedulePositions(us) ==
    UNION {UNION {{<<i, j, k>> : k \in 1..Len(us[i].dashboard.relays[j].schedules)} :
                  j \in 1..Len(us[i].dashboard.relays)} :
           i \in 1..Len(us)}

RelayAt(us, p) == us[p[1]].dashboard.relays[p[2]]
ScheduleAt(us, p) == RelayAt(us, p).schedules[p[3]]

\* an enabled schedule of an enabled relay
Live(us, p) == RelayAt(us, p).enabled /\ ScheduleAt(us, p).enabled

\* the schedules of store us that command relay r of device d
LiveFor(us, d, r) ==
    {p \in SchedulePositions(us) :
        Live(us, p) /\ us[p[1]].deviceId = d /\ RelayAt(us, p).index = r}

\* the window of schedule s is open at instant t: t falls on one of its days
\* and its 24-hour "HH:MM" time lies in [startTime, endTime]
WindowOpen(s, t) ==
    /\ CairoWeekday(t) \in s.days
    /\ StrLeq(s.startTime, HHMM(HourOf(t), MinuteOf(t)))
    /\ StrLeq(HHMM(HourOf(t), MinuteOf(t)), s.endTime)

\* number of messages of cmds addressed to relay r of device d
CountCmds(cmds, d, r) ==
    Cardinality({n \in 1..Len(cmds) : cmds[n].deviceId = d /\ cmds[n].relay = r})

CommandTargets(us) ==
    {<<us[p[1]].deviceId, RelayAt(us, p).index>> : p \in SchedulePositions(us)}

\* C1: for every enabled schedule of an enabled relay with startTime < endTime,
\* a tick publishes an "on" command for its (deviceId, relay index) at every
\* minute of [startTime, endTime] on a day of its day set, and none for it at
\* any other minute: per relay, the commands of a tick are as many as the
\* schedules whose window is open.
C1_WindowInclusive ==
    tick.status = "ok" =>
        \A tg \in CommandTargets(users) :
            (\A p \in LiveFor(users, tg[1], tg[2]) :
                StrLess(ScheduleAt(users, p).startTime, ScheduleAt(users, p).endTime))
            => CountCmds(tick.cmds, tg[1], tg[2]) =
                 Cardinality({p \in LiveFor(users, tg[1], tg[2]) :
                                WindowOpen(ScheduleAt(users, p), tick.at)})

\* C6: in one tick every (deviceId, relay index) with at least one enabled
\* schedule whose window is open receives an "on" command, and exactly one.
C6_ExactlyOncePerRelay ==
    tick.status = "ok" =>
        \A tg \in CommandTargets(users) :
            (\E p \in LiveFor(users, tg[1], tg[2]) :
                WindowOpen(ScheduleAt(users, p), tick.at))
            => CountCmds(tick.cmds, tg[1], tg[2]) = 1

\* C26: the weekday and the time a tick compares against the schedules are
\* those of one instant in Africa/Cairo: the weekday captured is the Cairo
\* weekday of the instant of the tick, also when the process runs in another
\* zone and the two dates differ.
C26_WeekdayOfReferenceZone ==
    tick.status # "none" => tick.day = CairoWeekday(tick.at)

\* C7: every command the scheduler publishes has action "on" and carries no
\* duration, also on the first tick after a window has closed.
C7_OnlyOnCommands ==
    \A n \in 1..Len(published) :
        /\ published[n].action = "on"
        /\ DOMAIN published[n] = {"deviceId", "relay", "action"}

\* a tick one minute after the end of a window of an enabled schedule, on a
\* day of the schedule, after earlier ticks published commands
C7_Witness ==
    /\ tick.status = "ok"
    /\ published # <<>>
    /\ \E p \in SchedulePositions(users) :
          /\ Live(users, p)
          /\ tick.day \in ScheduleAt(users, p).days
          /\ CairoWeekday(tick.at) \in ScheduleAt(users, p).days
          /\ ScheduleAt(users, p).endTime = HHMM(HourOf(tick.at - 1), MinuteOf(tick.at - 1))

\* C8: a tick publishes no command on account of a relay whose enabled flag is
\* false or of a schedule whose enabled flag is false: every command of a tick
\* is addressed to an enabled relay holding an enabled schedule that matches.
C8_DisabledNeverCommanded ==
    tick.status = "ok" =>
        \A n \in 1..Len(tick.cmds) :
            \E p \in LiveFor(users, tick.cmds[n].deviceId, tick.cmds[n].relay) :
                /\ isScheduledDay(ScheduleAt(users, p), tick.day)
                /\ isScheduledTime(ScheduleAt(users, p), tick.time)

\* a tick at which a disabled relay holds a matching schedule, and one at which
\* a disabled schedule matches, and the relay receives nothing
C8_Witness ==
    /\ tick.status = "ok"
    /\ \E p \in SchedulePositions(users) :
          /\ ~RelayAt(users, p).enabled
          /\ ScheduleAt(users, p).enabled
          /\ isScheduledDay(ScheduleAt(users, p), tick.day)
          /\ isScheduledTime(ScheduleAt(users, p), tick.time)
          /\ CountCmds(tick.cmds, users[p[1]].deviceId, RelayAt(users, p).index) = 0
    /\ \E p \in SchedulePositions(users) :
          /\ RelayAt(users, p).enabled
          /\ ~ScheduleAt(users, p).enabled
          /\ isScheduledDay(ScheduleAt(users, p), tick.day)
          /\ isScheduledTime(ScheduleAt(users, p), tick.time)

\* the schedules of store us that the comparison of the callback accepts
Matching(us, day, time) ==
    {p \in SchedulePositions(us) :
        /\ Live(us, p)
        /\ isScheduledDay(ScheduleAt(us, p), day)
        /\ isScheduledTime(ScheduleAt(us, p), time)}

-----------------------------------------------------------------------------
(* Store: the User collection *)

\* the unique indexes on username and deviceId reject the insert of doc
DuplicateKey(us, doc) ==
    \E i \in 1..Len(us) :
        us[i].username = doc.username \/ us[i].deviceId = doc.deviceId

\* variant: the collection has no unique index
InsertUserNoIndex(us, doc) == Append(us, doc)

\* save() of a new User document: the collection after the insert (unchanged
\* when a unique index rejects it)
InsertUser(us, doc) == IF DuplicateKey(us, doc) THEN us ELSE Append(us, doc)

\* variant: the lookup goes by username only
FindExistingByUsername(us, m) ==
    IF \E i \in 1..Len(us) : us[i].username = m.username
    THEN CHOOSE i \in 1..Len(us) :
            /\ us[i].username = m.username
            /\ \A j \in 1..(i - 1) : us[j].username # m.username
    ELSE 0

\* User.findOne({$or: [{username}, {deviceId}]}): the _id of the first account
\* that matches either field, 0 when none does
FindExisting(us, m) ==
    LET hit(i) == us[i].username = m.username \/ us[i].deviceId = m.deviceId
    IN  IF \E i \in 1..Len(us) : hit(i)
        THEN CHOOSE i \in 1..Len(us) : hit(i) /\ \A j \in 1..(i - 1) : ~hit(j)
        ELSE 0

\* User.findOne({deviceId}): the _id of the account of a device, 0 when none
FindByDevice(us, deviceId) ==
    IF \E i \in 1..Len(us) : us[i].deviceId = deviceId
    THEN CHOOSE i \in 1..Len(us) :
            /\ us[i].deviceId = deviceId
            /\ \A j \in 1..(i - 1) : us[j].deviceId # deviceId
    ELSE 0

-----------------------------------------------------------------------------
(* Registration: handleUserRegistration, POST /api/register and              *)
(* POST /api/debug/create-test-user                                          *)

\* variant: only the username is required
MissingFieldsUsernameOnly(m) == m.username = ""

\* !data.username || !data.password || !data.deviceId; an absent field is ""
MissingFields(m) == m.username = "" \/ m.password = "" \/ m.deviceId = ""

\* a handler run: its position, its input, the _id of the document it found,
\* its outcome, the instant it started (what new Date() and Date.now() give it)
\* and, for the dashboard routes, the document as findOne returned it; solo
\* records whether every earlier run had ended when this one started
Op(kind, pc, msg, target, result) ==
    [kind |-> kind, pc |-> pc, msg |-> msg, target |-> target, result |-> result,
     at |-> now, doc |-> <<>>,
     solo |-> \A q \in 1..Len(ops) : ops[q].pc = "done"]

Finish(op, result) == [op EXCEPT !.pc = "done", !.result = result]

\* salts bcrypt may draw
Salts == {1, 2}

\* variant: the API call goes on to save for an account found, as the bus
\* handler does
AfterLookupUpdateAlways(kind, m, existing) ==
    Op(kind, "save", m, existing, "pending")

\* what a registration does with the answer of findOne: the bus handler goes on
\* to overwrite the password of an existing account, the API call refuses
AfterLookup(kind, m, existing) ==
    IF existing = 0
    THEN Op(kind, "save", m, 0, "pending")
    ELSE IF kind = "busRegister"
         THEN Op(kind, "save", m, existing, "pending")
         ELSE Op(kind, "done", m, existing, "exists")

\* a registration arrives (bus message on green-tech/credentials, or the API
\* call); it is validated and its findOne is answered by the Store, or fails
RegisterStart(kind, m) ==
    /\ Len(ops) < MaxOps
    /\ \/ /\ MissingFields(m)
          /\ ops' = Append(ops, Op(kind, "done", m, 0, "invalid"))
       \/ /\ ~MissingFields(m)
          /\ ops' = Append(ops, AfterLookup(kind, m, FindExisting(users, m)))
       \/ /\ ~MissingFields(m)
          /\ ops' = Append(ops, Op(kind, "done", m, 0, "storeError"))
    /\ UNCHANGED <<users, statuses, connectedDevices, wsClients, readyState,
                   delivered, published, now, serverTzLag, cron, tick, broadcasts>>

\* the test-user call: no lookup; the device identifier is 'TEST-' + Date.now()
TestUserStart(m) ==
    /\ Len(ops) < MaxOps
    /\ IF m.username = "" \/ m.password = ""
       THEN ops' = Append(ops, Op("testUser", "done", m, 0, "invalid"))
       ELSE ops' = Append(ops, Op("testUser", "save", m, 0, "pending"))
    /\ UNCHANGED <<users, statuses, connectedDevices, wsClients, readyState,
                   delivered, published, now, serverTzLag, cron, tick, broadcasts>>

\* variant: the account found is brought in line with the message
UpdateExistingIdentity(us, id, m, hashedPassword) ==
    [us EXCEPT ![id].password = hashedPassword,
               ![id].username = m.username,
               ![id].deviceId = m.deviceId]

\* variant: the account found is written anew from the message, with the
\* empty dashboard of a new account
UpdateExistingRebuilt(us, id, m, hashedPassword) ==
    [us EXCEPT ![id].password = hashedPassword,
               ![id].dashboard = [relays |-> <<>>]]

\* existingUser.password = hashedPassword; existingUser.save(): the update
\* sets the one path that was assigned
UpdateExisting(us, id, m, hashedPassword) ==
    [us EXCEPT ![id].password = hashedPassword]

\* the password is hashed and save() is answered by the Store: the password of
\* the account found is overwritten in place, or a new account is inserted
RegisterSave(i) ==
    /\ ops[i].kind \in {"busRegister", "apiRegister", "testUser"}
    /\ ops[i].pc = "save"
    /\ \E salt \in Salts :
          LET m == ops[i].msg
              hashedPassword == Hash(m.password, salt)
              doc == NewUser(m.username, hashedPassword, m.deviceId, ops[i].at)
          IN  \/ /\ ops[i].target # 0
                 /\ users' = UpdateExisting(users, ops[i].target, m, hashedPassword)
                 /\ ops' = [ops EXCEPT ![i] = Finish(@, "updated")]
              \/ /\ ops[i].target = 0
                 /\ users' = InsertUser(users, doc)
                 /\ ops' = [ops EXCEPT ![i] =
                              Finish(@, IF users' = users THEN "duplicate" ELSE "created")]
              \/ /\ users' = users
                 /\ ops' = [ops EXCEPT ![i] = Finish(@, "storeError")]
    /\ UNCHANGED <<statuses, connectedDevices, wsClients, readyState,
                   delivered, published, now, serverTzLag, cron, tick, broadcasts>>

-----------------------------------------------------------------------------
(* Registration specification *)

Credentials(username, password, deviceId) ==
    [username |-> username, password |-> password, deviceId |-> deviceId]

\* registration payloads: a device, the same device under another name, the
\* same name with another device, a payload without password, and a device
\* and name of their own
RegMessages ==
    {Credentials("alice", "pw1", "dev1"), Credentials("bob", "pw2", "dev1"),
     Credentials("alice", "pw2", "dev2"), Credentials("alice", "", "dev1"),
     Credentials("carol", "pw3", "dev3")}

\* test-user requests, with the identifier Date.now() gives them
TestMessages ==
    {Credentials("carol", "pw1", "TEST-1001"), Credentials("alice", "pw2", "TEST-1001"),
     Credentials("", "pw1", "TEST-1001")}

ConfiguredUser ==
    [NewUser("alice", Hash("pw0", 1), "dev1", 0) EXCEPT
        !.dashboard.relays =
            <<Relay(0, "pump", "pump.png", TRUE,
                    <<Schedule({1}, HHMM(8, 0), HHMM(8, 2), TRUE)>>)>>]

RegStores ==
    {<<>>, <<ConfiguredUser>>,
     <<NewUser("alice", Hash("pw0", 1), "dev2", 0),
       NewUser("bob", Hash("pw0", 2), "dev1", 0)>>}

InitReg ==
    /\ InitQuiet
    /\ users \in RegStores
    /\ now = Monday
    /\ serverTzLag = 0

NextReg ==
    \/ \E m \in RegMessages : RegisterStart("busRegister", m)
    \/ \E m \in RegMessages : RegisterStart("apiRegister", m)
    \/ \E m \in TestMessages : TestUserStart(m)
    \/ \E i \in 1..Len(ops) : RegisterSave(i)

SpecReg == InitReg /\ [][NextReg]_vars


-----------------------------------------------------------------------------
(* Properties of registration *)

\* every handler run so far is a bus registration of message m that ran to its
\* end without a Store failure, and there are at least two of them
ProcessedTwice(m) ==
    /\ Len(ops) >= 2
    /\ \A i \in 1..Len(ops) :
          /\ ops[i].kind = "busRegister"
          /\ ops[i].msg = m
          /\ ops[i].pc = "done"
          /\ ops[i].result # "storeError"

Matches(u, m) == u.username = m.username \/ u.deviceId = m.deviceId

C5_UniqueAccounts ==
    \A i, j \in 1..Len(users) :
        i # j => /\ users[i].username # users[j].username
                 /\ users[i].deviceId # users[j].deviceId

\* two registrations of different kinds raced for the same identifier: one
\* created the account, the insert of the other was rejected
C5_Witness ==
    \E i, j \in 1..Len(ops) :
        /\ ops[i].kind # ops[j].kind
        /\ ops[i].result = "created"
        /\ ops[j].result = "duplicate"
        /\ Matches(ops[i].msg, ops[j].msg)


-----------------------------------------------------------------------------
(* Live-update fanout *)

Sockets == {"ws1", "ws2"}

\* variant: every socket of the set is written to, whatever its readyState
RecipientsAnyState(clients, rs) == clients

\* variant: a socket of the set that is not open makes the broadcast fail
\* before any socket is written to
RecipientsUnlessAnyClosed(clients, rs) ==
    IF \E c \in clients : rs[c] # "OPEN" THEN {} ELSE clients

\* the clients broadcastToWebSockets writes to: those of wsClients whose
\* readyState is WebSocket.OPEN
Recipients(clients, rs) == {c \in clients : rs[c] = "OPEN"}

\* client.send(message) for every recipient and every event of evs
Send(delv, to, evs) ==
    [c \in DOMAIN delv |-> IF c \in to THEN delv[c] \o evs ELSE delv[c]]

\* the calls of broadcastToWebSockets, with the handler run that made them
Logged(bc, evs, i, to) ==
    bc \o [n \in 1..Len(evs) |->
             [type |-> evs[n].type, data |-> evs[n].data, op |-> i, to |-> to]]

\* broadcastToWebSockets(ev) for every event of evs, called by handler run i
broadcastToWebSockets(evs, i) ==
    LET to == Recipients(wsClients, readyState)
    IN  /\ delivered' = Send(delivered, to, evs)
        /\ broadcasts' = Logged(broadcasts, evs, i, to)

\* wss.on('connection'): the socket joins the set
WsConnect(c) ==
    /\ c \notin DOMAIN readyState
    /\ wsClients' = wsClients \cup {c}
    /\ readyState' = [x \in DOMAIN readyState \cup {c} |->
                        IF x = c THEN "OPEN" ELSE readyState[x]]
    /\ delivered' = [x \in DOMAIN delivered \cup {c} |->
                        IF x = c THEN <<>> ELSE delivered[x]]
    /\ UNCHANGED <<users, statuses, connectedDevices, published, now, serverTzLag,
                   cron, tick, ops, broadcasts>>

\* the closing handshake of a socket starts; no event has been emitted yet
WsClosing(c) ==
    /\ c \in DOMAIN readyState
    /\ readyState[c] = "OPEN"
    /\ readyState' = [readyState EXCEPT ![c] = "CLOSING"]
    /\ UNCHANGED <<users, statuses, connectedDevices, wsClients, delivered,
                   published, now, serverTzLag, cron, tick, ops, broadcasts>>

\* ws.on('close')
WsClose(c) ==
    /\ c \in DOMAIN readyState
    /\ readyState[c] \in {"OPEN", "CLOSING"}
    /\ readyState' = [readyState EXCEPT ![c] = "CLOSED"]
    /\ wsClients' = wsClients \ {c}
    /\ UNCHANGED <<users, statuses, connectedDevices, delivered, published, now,
                   serverTzLag, cron, tick, ops, broadcasts>>

\* variant: the error handler only logs, the socket stays in the set
WsErrorLogOnly(c) ==
    /\ c \in DOMAIN readyState
    /\ readyState[c] \in {"OPEN", "CLOSING"}
    /\ c \in wsClients
    /\ readyState' = [readyState EXCEPT ![c] = "CLOSING"]
    /\ UNCHANGED <<users, statuses, connectedDevices, wsClients, delivered,
                   published, now, serverTzLag, cron, tick, ops, broadcasts>>

\* ws.on('error'): the socket leaves the set; its 'close' event follows
WsError(c) ==
    /\ c \in DOMAIN readyState
    /\ readyState[c] \in {"OPEN", "CLOSING"}
    /\ c \in wsClients
    /\ readyState' = [readyState EXCEPT ![c] = "CLOSING"]
    /\ wsClients' = wsClients \ {c}
    /\ UNCHANGED <<users, statuses, connectedDevices, delivered, published, now,
                   serverTzLag, cron, tick, ops, broadcasts>>

-----------------------------------------------------------------------------
(* Store: the DeviceStatus collection *)

\* new DeviceStatus(data): the snapshot with the default timestamp
NewDeviceStatus(data, at) ==
    [deviceId |-> data.deviceId, ip |-> data.ip, rssi |-> data.rssi,
     uptime |-> data.uptime, relays |-> data.relays, timestamp |-> at]

\* variant: the insert replaces the first record the device already has
InsertStatusUpsert(sts, doc) ==
    IF \E n \in 1..Len(sts) : sts[n].deviceId = doc.deviceId
    THEN [sts EXCEPT ![CHOOSE n \in 1..Len(sts) :
                          /\ sts[n].deviceId = doc.deviceId
                          /\ \A q \in 1..(n - 1) : sts[q].deviceId # doc.deviceId] = doc]
    ELSE Append(sts, doc)

\* deviceStatus.save() of a new document: an insert
InsertStatus(sts, doc) == Append(sts, doc)

\* variant: the $set replaces the relays array by the one element
SetRelayPathReplace(relays, k, state, timer) ==
    [p \in {k} |-> [index |-> -1, state |-> state, name |-> "", timer |-> timer]]

\* $set of relays.<k>.state and relays.<k>.timer: element k of the relays
\* array, made if it is not there (an element made so has no index, no name)
SetRelayPath(relays, k, state, timer) ==
    [p \in DOMAIN relays \cup {k} |->
        IF p # k
        THEN relays[p]
        ELSE IF k \in DOMAIN relays
             THEN [relays[k] EXCEPT !.state = state, !.timer = timer]
             ELSE [index |-> -1, state |-> state, name |-> "", timer |-> timer]]

\* DeviceStatus.findOneAndUpdate({deviceId}, {$set: ...}, {upsert: true}): the
\* first document of the device in the collection is updated; when there is
\* none, one is inserted with the query's deviceId and the fields set
RelayStatusUpsert(sts, data, at) ==
    IF \E n \in 1..Len(sts) : sts[n].deviceId = data.deviceId
    THEN LET n == CHOOSE n \in 1..Len(sts) :
                     /\ sts[n].deviceId = data.deviceId
                     /\ \A q \in 1..(n - 1) : sts[q].deviceId # data.deviceId
         IN  [sts EXCEPT ![n].relays = SetRelayPath(@, data.relay, data.state, data.timer),
                         ![n].timestamp = at]
    ELSE Append(sts, [deviceId |-> data.deviceId, ip |-> "", rssi |-> 0, uptime |-> 0,
                      relays |-> SetRelayPath(EmptyMap, data.relay, data.state, data.timer),
                      timestamp |-> at])

-----------------------------------------------------------------------------
(* Ingestion: handleRelayStatus and handleDeviceStatus *)

\* variant: handleRelayStatus broadcasts nothing before its Store call
RelayStatusEventsNone(data) == <<>>

\* the events handleRelayStatus broadcasts before it calls the Store
RelayStatusEvents(data) == <<[type |-> "relay_status", data |-> data]>>

\* the events handleDeviceStatus broadcasts once save() has resolved
DeviceStatusEvents(data) == <<[type |-> "device_status", data |-> data]>>

\* variant: the snapshot is broadcast although save() rejected
DeviceStatusFailureEventsAnyway(data) == DeviceStatusEvents(data)

\* the events handleDeviceStatus broadcasts when save() rejects: the catch
\* block only logs
DeviceStatusFailureEvents(data) == <<>>

\* variant: the message is broadcast again once findOneAndUpdate has resolved
RelayStatusLateEventsRepeat(data) == RelayStatusEvents(data)

\* the events handleRelayStatus broadcasts after its Store call: none
RelayStatusLateEvents(data) == <<>>

\* a message on green-tech/relay-status: broadcast, then findOneAndUpdate is
\* called (with timestamp: new Date()) and awaited
RelayStatusStart(data) ==
    /\ Len(ops) < MaxOps
    /\ ops' = Append(ops, Op("relayStatus", "update", data, 0, "pending"))
    /\ broadcastToWebSockets(RelayStatusEvents(data), Len(ops) + 1)
    /\ UNCHANGED <<users, statuses, connectedDevices, wsClients, readyState,
                   published, now, serverTzLag, cron, tick>>

\* findOneAndUpdate is answered: the upsert is applied, or it fails and the
\* catch block logs
RelayStatusPersist(i) ==
    /\ ops[i].kind = "relayStatus"
    /\ ops[i].pc = "update"
    /\ \/ /\ statuses' = RelayStatusUpsert(statuses, ops[i].msg, ops[i].at)
          /\ ops' = [ops EXCEPT ![i] = Finish(@, "stored")]
          /\ broadcastToWebSockets(RelayStatusLateEvents(ops[i].msg), i)
       \/ /\ statuses' = statuses
          /\ ops' = [ops EXCEPT ![i] = Finish(@, "storeError")]
          /\ UNCHANGED <<delivered, broadcasts>>
    /\ UNCHANGED <<users, connectedDevices, wsClients, readyState,
                   published, now, serverTzLag, cron, tick>>

\* a message on green-tech/device-status: the document is built and save() awaited
DeviceStatusStart(data) ==
    /\ Len(ops) < MaxOps
    /\ ops' = Append(ops, Op("deviceStatus", "save", data, 0, "pending"))
    /\ UNCHANGED <<users, statuses, connectedDevices, wsClients, readyState,
                   delivered, published, now, serverTzLag, cron, tick, broadcasts>>

\* save() is answered: the snapshot is inserted; or validation (deviceId is
\* required) or the Store rejects it, and the catch block runs
DeviceStatusPersist(i) ==
    /\ ops[i].kind = "deviceStatus"
    /\ ops[i].pc = "save"
    /\ \/ /\ ops[i].msg.deviceId # ""
          /\ statuses' = InsertStatus(statuses, NewDeviceStatus(ops[i].msg, ops[i].at))
          /\ ops' = [ops EXCEPT ![i].pc = "saved"]
          /\ UNCHANGED <<delivered, broadcasts>>
       \/ /\ statuses' = statuses
          /\ ops' = [ops EXCEPT ![i] =
                       Finish(@, IF ops[i].msg.deviceId = "" THEN "invalid"
                                                            ELSE "storeError")]
          /\ broadcastToWebSockets(DeviceStatusFailureEvents(ops[i].msg), i)
    /\ UNCHANGED <<users, connectedDevices, wsClients, readyState, published, now,
                   serverTzLag, cron, tick>>

\* variant: the cache is left as it is
SetConnectedDeviceSkipped(cache, data, at) == cache

\* connectedDevices.set(data.deviceId, {lastSeen: new Date(), data})
SetConnectedDevice(cache, data, at) ==
    [d \in DOMAIN cache \cup {data.deviceId} |->
        IF d = data.deviceId THEN [data |-> data, lastSeen |-> at] ELSE cache[d]]

\* the handler resumes after save(): the cache entry is set, then the snapshot
\* is broadcast
DeviceStatusPublish(i) ==
    /\ ops[i].kind = "deviceStatus"
    /\ ops[i].pc = "saved"
    /\ connectedDevices' = SetConnectedDevice(connectedDevices, ops[i].msg, now)
    /\ broadcastToWebSockets(DeviceStatusEvents(ops[i].msg), i)
    /\ ops' = [ops EXCEPT ![i] = Finish(@, "stored")]
    /\ UNCHANGED <<users, statuses, wsClients, readyState, published, now,
                   serverTzLag, cron, tick>>

-----------------------------------------------------------------------------
(* Ingestion specification *)

RelayStatusMessages ==
    {[deviceId |-> "dev1", relay |-> 0, state |-> TRUE, timer |-> 0],
     [deviceId |-> "dev1", relay |-> 1, state |-> FALSE, timer |-> 30]}

Snapshot(deviceId, uptime) ==
    [deviceId |-> deviceId, ip |-> "10.0.0.7", rssi |-> -60, uptime |-> uptime,
     relays |-> [p \in {0} |-> [index |-> 0, state |-> FALSE, name |-> "pump",
                                timer |-> 0]]]

\* device snapshots; one arrives without its deviceId
DeviceStatusMessages == {Snapshot("dev1", 5), Snapshot("", 5)}

InitStatus ==
    /\ InitQuiet
    /\ users = <<ConfiguredUser>>
    /\ now = Monday
    /\ serverTzLag = 0

NextStatus ==
    \/ \E c \in Sockets : WsConnect(c)
    \/ \E c \in Sockets : WsClosing(c)
    \/ \E c \in Sockets : WsClose(c)
    \/ \E c \in Sockets : WsError(c)
    \/ \E data \in RelayStatusMessages : RelayStatusStart(data)
    \/ \E i \in 1..Len(ops) : RelayStatusPersist(i)
    \/ \E data \in DeviceStatusMessages : DeviceStatusStart(data)
    \/ \E i \in 1..Len(ops) : DeviceStatusPersist(i)
    \/ \E i \in 1..Len(ops) : DeviceStatusPublish(i)

SpecStatus == InitStatus /\ [][NextStatus]_vars

-----------------------------------------------------------------------------
(* Dashboard read: GET /api/dashboard/:deviceId *)

\* DeviceStatus.findOne({deviceId}).sort({timestamp: -1}): the positions of the
\* records of the device with the greatest timestamp (one of them is returned)
LatestOf(sts, deviceId) ==
    {n \in 1..Len(sts) :
        /\ sts[n].deviceId = deviceId
        /\ \A q \in 1..Len(sts) :
              sts[q].deviceId = deviceId => sts[q].timestamp <= sts[n].timestamp}

\* the request arrives and User.findOne({deviceId}) is answered
DashboardReadStart(req) ==
    /\ Len(ops) < MaxOps
    /\ LET id == FindByDevice(users, req.deviceId)
       IN  \/ /\ id = 0
              /\ ops' = Append(ops, Op("dashboardRead", "done", req, 0, "userNotFound"))
           \/ /\ id # 0
              /\ ops' = Append(ops, Op("dashboardRead", "status", req, id, "pending"))
           \/ ops' = Append(ops, Op("dashboardRead", "done", req, 0, "storeError"))
    /\ UNCHANGED <<users, statuses, connectedDevices, wsClients, readyState,
                   delivered, published, now, serverTzLag, cron, tick, broadcasts>>

\* the status query is answered: the latest record of the device (null when
\* it has none) goes into the response with the dashboard
DashboardReadStatus(i) ==
    /\ ops[i].kind = "dashboardRead"
    /\ ops[i].pc = "status"
    /\ \/ /\ LatestOf(statuses, ops[i].msg.deviceId) = {}
          /\ ops' = [ops EXCEPT ![i] = Finish(@, "ok")]
       \/ \E n \in LatestOf(statuses, ops[i].msg.deviceId) :
             ops' = [ops EXCEPT ![i] = [Finish(@, "ok") EXCEPT !.doc = statuses[n]]]
       \/ ops' = [ops EXCEPT ![i] = Finish(@, "storeError")]
    /\ UNCHANGED <<users, statuses, connectedDevices, wsClients, readyState,
                   delivered, published, now, serverTzLag, cron, tick, broadcasts>>

-----------------------------------------------------------------------------
(* Status record specification: stores holding earlier snapshots *)

\* no record; one snapshot of dev1; two snapshots of dev1, the older first;
\* the same after a snapshot of another device
StatusStores ==
    {<<>>,
     <<NewDeviceStatus(Snapshot("dev1", 5), Monday - 10)>>,
     <<NewDeviceStatus(Snapshot("dev1", 5), Monday - 10),
       NewDeviceStatus(Snapshot("dev1", 9), Monday - 5)>>,
     <<NewDeviceStatus(Snapshot("dev2", 7), Monday - 7),
       NewDeviceStatus(Snapshot("dev1", 5), Monday - 10),
       NewDeviceStatus(Snapshot("dev1", 9), Monday - 5)>>}

DashboardReadRequests == {[deviceId |-> "dev1"], [deviceId |-> "dev9"]}

InitRecords ==
    /\ statuses \in StatusStores
    /\ users = <<ConfiguredUser>>
    /\ connectedDevices = EmptyMap
    /\ wsClients = {}
    /\ readyState = EmptyMap
    /\ delivered = EmptyMap
    /\ published = <<>>
    /\ cron = [armed |-> TRUE, fired |-> 0, errors |-> 0]
    /\ tick = NoTick
    /\ ops = <<>>
    /\ broadcasts = <<>>
    /\ now = Monday
    /\ serverTzLag = 0

NextRecords ==
    \/ \E data \in RelayStatusMessages : RelayStatusStart(data)
    \/ \E i \in 1..Len(ops) : RelayStatusPersist(i)
    \/ \E data \in DeviceStatusMessages : DeviceStatusStart(data)
    \/ \E i \in 1..Len(ops) : DeviceStatusPersist(i)
    \/ \E i \in 1..Len(ops) : DeviceStatusPublish(i)
    \/ \E req \in DashboardReadRequests : DashboardReadStart(req)
    \/ \E i \in 1..Len(ops) : DashboardReadStatus(i)

SpecRecords == InitRecords /\ [][NextRecords]_vars

-----------------------------------------------------------------------------
(* Properties of the ingestion handlers *)

BroadcastsOf(i, type) ==
    {n \in 1..Len(broadcasts) : broadcasts[n].op = i /\ broadcasts[n].type = type}

\* C3: when the upsert of a relay-status message fails, the message has still
\* been broadcast, tagged relay_status: the broadcast is made when the handler
\* starts, before the Store is called, whatever the Store then answers.
C3_RelayStatusBroadcastFirst ==
    \A i \in 1..Len(ops) :
        ops[i].kind = "relayStatus" =>
            \E n \in BroadcastsOf(i, "relay_status") :
                /\ broadcasts[n].data = ops[i].msg
                /\ \A c \in broadcasts[n].to :
                      \E k \in 1..Len(delivered[c]) :
                          delivered[c][k] = [type |-> "relay_status", data |-> ops[i].msg]

\* a relay-status message whose upsert failed and that reached an open socket
C3_Witness ==
    \E i \in 1..Len(ops) :
        /\ ops[i].kind = "relayStatus"
        /\ ops[i].result = "storeError"
        /\ \E n \in BroadcastsOf(i, "relay_status") : broadcasts[n].to # {}

\* the positions of the relay_status broadcasts
RelayStatusBroadcasts == {n \in 1..Len(broadcasts) : broadcasts[n].type = "relay_status"}

\* C33: relay_status events are broadcast in the order in which their bus
\* messages arrived: each relay-status handler run has made exactly one
\* broadcast, and of two such broadcasts the earlier belongs to the run of the
\* message that arrived first, however the Store calls of the runs in flight
\* are answered.
C33_RelayStatusInArrivalOrder ==
    /\ \A i \in 1..Len(ops) :
          ops[i].kind = "relayStatus" =>
              Cardinality(BroadcastsOf(i, "relay_status")) = 1
    /\ \A n \in RelayStatusBroadcasts : \A m \in RelayStatusBroadcasts :
          n < m => broadcasts[n].op < broadcasts[m].op

\* two relay-status messages were in flight together and the upsert of the
\* second was answered first; the open socket has the two events in the order
\* of arrival
C33_Witness ==
    /\ Len(ops) >= 2
    /\ ops[1].kind = "relayStatus" /\ ops[1].pc = "update"
    /\ ops[2].kind = "relayStatus" /\ ops[2].result = "stored"
    /\ ops[1].msg # ops[2].msg
    /\ \E c \in wsClients :
          delivered[c] = <<[type |-> "relay_status", data |-> ops[1].msg],
                           [type |-> "relay_status", data |-> ops[2].msg]>>

\* C4: when persisting a device-status message fails, nothing is broadcast for
\* it: every device_status broadcast is made by a handler run whose insert
\* succeeded, and a run whose insert failed has made no broadcast.
C4_NoBroadcastWithoutPersist ==
    /\ \A n \in 1..Len(broadcasts) :
          broadcasts[n].type = "device_status" =>
              /\ ops[broadcasts[n].op].kind = "deviceStatus"
              /\ ops[broadcasts[n].op].result = "stored"
              /\ ops[broadcasts[n].op].msg = broadcasts[n].data
    /\ \A i \in 1..Len(ops) :
          (ops[i].kind = "deviceStatus" /\ ops[i].result \in {"storeError", "invalid"})
              => \A n \in 1..Len(broadcasts) : broadcasts[n].op # i

\* a snapshot whose insert failed while a socket was open and had received
\* nothing
C4_Witness ==
    \E i \in 1..Len(ops) :
        /\ ops[i].kind = "deviceStatus"
        /\ ops[i].result = "storeError"
        /\ \E c \in wsClients : readyState[c] = "OPEN" /\ delivered[c] = <<>>


-----------------------------------------------------------------------------
(* Dashboard routes: PUT /api/dashboard/relay/:deviceId,                     *)
(* POST and DELETE /api/dashboard/schedule/:deviceId/:relayIndex[/:index]    *)

\* parseInt of a URL parameter
ParseInt(param) ==
    CASE param = "0" -> 0
      [] param = "1" -> 1
      [] param = "2" -> 2
      [] param = "3" -> 3
      [] param = "-1" -> 0 - 1
      [] OTHER -> NaN

Max(a, b) == IF a > b THEN a ELSE b

\* variant: splice(start) without a delete count removes the rest of the list
SpliceToEnd(list, start) ==
    LET from == IF start = NaN THEN 0
                ELSE IF start < 0 THEN Max(Len(list) + start, 0)
                ELSE Min(start, Len(list))
    IN  SubSeq(list, 1, from)

\* list.splice(start, 1): the list without the element at the 0-based
\* position start; NaN counts as 0, a negative start counts from the end, a
\* start past the end removes nothing
Splice(list, start) ==
    LET from == IF start = NaN THEN 0
                ELSE IF start < 0 THEN Max(Len(list) + start, 0)
                ELSE Min(start, Len(list))
    IN  SubSeq(list, 1, from) \o SubSeq(list, from + 2, Len(list))

\* a value of a JSON body that is read as a relay index: a number, or a string
\* of digits (value is then the number the digits spell)
JsonNumber(n) == [type |-> "number", value |-> n]
JsonString(n) == [type |-> "string", value |-> n]

\* the schema casts what is stored under index to a Number: a string of
\* digits becomes the number it spells
CastNumber(x) == x.value

\* user.dashboard.relays.find(r => r.index === index): the position of the
\* first relay with that index, 0 when there is none
FindRelay(doc, index) ==
    LET rs == doc.dashboard.relays
    IN  IF \E j \in 1..Len(rs) : rs[j].index = index
        THEN CHOOSE j \in 1..Len(rs) :
                /\ rs[j].index = index
                /\ \A q \in 1..(j - 1) : rs[q].index # index
        ELSE 0

\* What save() sends for the change a route made to the document it loaded:
\* the update, whether the stored version key must equal the loaded one
\* (where) and whether it is incremented (inc).  mongoose checks the version
\* for a $set under an array position, increments it for a $push, and does
\* both for a $push under an array position and for a $set of a whole array.
NoDelta == [op |-> "none", pos |-> 0, value |-> <<>>, where |-> FALSE, inc |-> FALSE]

\* the same scan with the index of a request body: === holds for no stored
\* index, which is a number, when the body's index is a string
FindRelayStrict(doc, x) == IF x.type = "number" THEN FindRelay(doc, x.value) ELSE 0

\* PUT relay: the three fields of the relay found are assigned, and save()
\* sets those whose value the assignment changed; else a relay is pushed
RelayDelta(doc, body) ==
    LET j == FindRelayStrict(doc, body.index)
        changed == {f \in {"name", "image", "enabled"} :
                       doc.dashboard.relays[j][f] # body[f]}
    IN  IF j # 0
        THEN IF changed = {}
             THEN NoDelta
             ELSE [op |-> "setRelayFields", pos |-> j,
                   value |-> [f \in changed |-> body[f]],
                   where |-> TRUE, inc |-> FALSE]
        ELSE [op |-> "pushRelay", pos |-> 0,
              value |-> Relay(CastNumber(body.index), body.name, body.image,
                              body.enabled, <<>>),
              where |-> FALSE, inc |-> TRUE]

\* POST schedule: relay.schedules.push({days, startTime, endTime, enabled})
AddScheduleDelta(doc, j, body) ==
    [op |-> "pushSchedule", pos |-> j,
     value |-> Schedule(body.days, body.startTime, body.endTime, body.enabled),
     where |-> TRUE, inc |-> TRUE]

\* DELETE schedule: relay.schedules.splice(parseInt(scheduleIndex), 1)
DeleteScheduleDelta(doc, j, scheduleIndex) ==
    [op |-> "setSchedules", pos |-> j,
     value |-> Splice(doc.dashboard.relays[j].schedules, ParseInt(scheduleIndex)),
     where |-> TRUE, inc |-> TRUE]

\* the stored document after the update of a delta
Updated(stored, delta) ==
    LET bumped == IF delta.inc THEN [stored EXCEPT !.v = stored.v + 1] ELSE stored
    IN  CASE delta.op = "none" -> stored
          [] delta.op = "setRelayFields" ->
                [bumped EXCEPT !.dashboard.relays[delta.pos] =
                    [f \in DOMAIN @ |-> IF f \in DOMAIN delta.value
                                        THEN delta.value[f] ELSE @[f]]]
          [] delta.op = "pushRelay" ->
                [bumped EXCEPT !.dashboard.relays = Append(@, delta.value)]
          [] delta.op = "pushSchedule" ->
                [bumped EXCEPT !.dashboard.relays[delta.pos].schedules =
                                   Append(@, delta.value)]
          [] delta.op = "setSchedules" ->
                [bumped EXCEPT !.dashboard.relays[delta.pos].schedules = delta.value]

\* variant: the update carries no version condition
VersionMatchesAlways(stored, loaded, delta) == TRUE

\* the update matches the stored document: a delta that checks the version
\* finds the version it loaded
VersionMatches(stored, loaded, delta) == delta.where => stored.v = loaded.v

\* the change a route makes to the document it loaded
RouteDelta(kind, doc, req) ==
    CASE kind = "putRelay" -> RelayDelta(doc, req.body)
      [] kind = "addSchedule" ->
            AddScheduleDelta(doc, FindRelay(doc, ParseInt(req.relayIndex)), req.body)
      [] kind = "deleteSchedule" ->
            DeleteScheduleDelta(doc, FindRelay(doc, ParseInt(req.relayIndex)),
                                req.scheduleIndex)

\* the schedule routes answer 404 when the document has no relay of the index
RelayMissing(kind, doc, req) ==
    IF kind = "putRelay" THEN FALSE ELSE FindRelay(doc, ParseInt(req.relayIndex)) = 0

\* a dashboard request arrives and its findOne({deviceId}) is answered: 404
\* without an account, 404 without the relay (schedule routes), else the
\* route changes the loaded document and awaits save()
DashStart(kind, req) ==
    /\ Len(ops) < MaxOps
    /\ LET id == FindByDevice(users, req.deviceId)
       IN  \/ /\ id = 0
              /\ ops' = Append(ops, Op(kind, "done", req, 0, "userNotFound"))
           \/ /\ id # 0
              /\ RelayMissing(kind, users[id], req)
              /\ ops' = Append(ops, Op(kind, "done", req, id, "relayNotFound"))
           \/ /\ id # 0
              /\ ~RelayMissing(kind, users[id], req)
              /\ ops' = Append(ops, [Op(kind, "save", req, id, "pending")
                                       EXCEPT !.doc = users[id]])
           \/ ops' = Append(ops, Op(kind, "done", req, 0, "storeError"))
    /\ UNCHANGED <<users, statuses, connectedDevices, wsClients, readyState,
                   delivered, published, now, serverTzLag, cron, tick, broadcasts>>

\* save() is answered: the update is applied to the stored document, or it
\* matches nothing (VersionError), or the Store fails; the route answers
DashSave(i) ==
    /\ ops[i].kind \in {"putRelay", "addSchedule", "deleteSchedule"}
    /\ ops[i].pc = "save"
    /\ LET delta == RouteDelta(ops[i].kind, ops[i].doc, ops[i].msg)
           id == ops[i].target
       IN  \/ /\ VersionMatches(users[id], ops[i].doc, delta)
              /\ users' = [users EXCEPT ![id] = Updated(@, delta)]
              /\ ops' = [ops EXCEPT ![i] = Finish(@, "saved")]
           \/ /\ ~VersionMatches(users[id], ops[i].doc, delta)
              /\ users' = users
              /\ ops' = [ops EXCEPT ![i] = Finish(@, "versionError")]
           \/ /\ delta.op # "none"
              /\ users' = users
              /\ ops' = [ops EXCEPT ![i] = Finish(@, "storeError")]
    /\ UNCHANGED <<statuses, connectedDevices, wsClients, readyState, delivered,
                   published, now, serverTzLag, cron, tick, broadcasts>>

-----------------------------------------------------------------------------
(* Dashboard specification *)

\* bodies for relay 0 that change its name only, or its image and flag only,
\* one for relay 1, and one whose index is the string "0"
RelayBodies ==
    {[index |-> JsonNumber(0), name |-> "lamp", image |-> "pump.png", enabled |-> TRUE],
     [index |-> JsonNumber(0), name |-> "pump", image |-> "lamp.png", enabled |-> FALSE],
     [index |-> JsonNumber(1), name |-> "fan", image |-> "fan.png", enabled |-> TRUE],
     [index |-> JsonString(0), name |-> "pump", image |-> "pump.png", enabled |-> TRUE]}

\* requests for the device of the account, and one for a device without account
PutRelayRequests ==
    {[deviceId |-> "dev1", body |-> b] : b \in RelayBodies}
    \cup {[deviceId |-> "dev9", body |-> b] :
            b \in {[index |-> JsonNumber(0), name |-> "pump", image |-> "pump.png",
                    enabled |-> TRUE]}}

ScheduleBodies ==
    {Schedule({1}, HHMM(8, 0), HHMM(8, 2), TRUE),
     Schedule({2}, HHMM(23, 0), HHMM(1, 0), TRUE)}

AddScheduleRequests ==
    {[deviceId |-> "dev1", relayIndex |-> r, body |-> b] :
        r \in {"0", "1"}, b \in ScheduleBodies}
    \cup {[deviceId |-> "dev9", relayIndex |-> "0", body |-> b] :
            b \in {Schedule({1}, HHMM(8, 0), HHMM(8, 2), TRUE)}}

DeleteScheduleRequests ==
    {[deviceId |-> "dev1", relayIndex |-> r, scheduleIndex |-> k] :
        r \in {"0", "1"}, k \in {"0", "1", "2", "3", "-1", "abc"}}
    \cup {[deviceId |-> "dev9", relayIndex |-> "0", scheduleIndex |-> k] : k \in {"0"}}

\* an account without relays, and one whose relay 0 holds three schedules
DashStores ==
    {<<NewUser("alice", Hash("pw0", 1), "dev1", 0)>>,
     <<[NewUser("alice", Hash("pw0", 1), "dev1", 0) EXCEPT
          !.dashboard.relays =
              <<Relay(0, "pump", "pump.png", TRUE,
                      <<Schedule({1}, HHMM(8, 0), HHMM(8, 2), TRUE),
                        Schedule({1}, HHMM(8, 1), HHMM(8, 3), TRUE),
                        Schedule({3}, HHMM(18, 0), HHMM(19, 0), FALSE)>>)>>]>>}

InitDash ==
    /\ InitQuiet
    /\ users \in DashStores
    /\ now = Monday
    /\ serverTzLag = 0

NextDash ==
    \/ \E req \in PutRelayRequests : DashStart("putRelay", req)
    \/ \E req \in AddScheduleRequests : DashStart("addSchedule", req)
    \/ \E req \in DeleteScheduleRequests : DashStart("deleteSchedule", req)
    \/ \E i \in 1..Len(ops) : DashSave(i)

SpecDash == InitDash /\ [][NextDash]_vars


-----------------------------------------------------------------------------
(* Properties of the dashboard routes *)

\* the step in which save() of delete-schedule run i succeeds
DeleteSaved(i) ==
    /\ ops[i].kind = "deleteSchedule"
    /\ ops[i].pc = "save"
    /\ ops'[i].result = "saved"

\* C10: for a relay whose stored schedule list has length n and a position k
\* with 0 <= k < n, the delete-schedule operation at k leaves, for the next
\* read, that list with exactly the entry at k removed: the entries before k
\* unchanged, the entries after k shifted down by one, length n - 1.
C10_DeleteRemovesEntry ==
    [][\A i \in 1..Len(ops) :
          DeleteSaved(i) =>
             LET id == ops[i].target
                 j == FindRelay(users[id], ParseInt(ops[i].msg.relayIndex))
                 k == ParseInt(ops[i].msg.scheduleIndex)
                 before == users[id].dashboard.relays[j].schedules
                 after == users'[id].dashboard.relays[j].schedules
             IN  (0 <= k /\ k < Len(before)) =>
                    /\ Len(after) = Len(before) - 1
                    /\ \A q \in 1..k : after[q] = before[q]
                    /\ \A q \in (k + 1)..Len(after) : after[q] = before[q + 1]
                    /\ \A r \in 1..Len(users[id].dashboard.relays) :
                          r # j => users'[id].dashboard.relays[r] =
                                     users[id].dashboard.relays[r]]_vars

\* the middle one of three schedules has been deleted
C10_Witness ==
    \E i \in 1..Len(ops) :
        /\ ops[i].kind = "deleteSchedule"
        /\ ops[i].result = "saved"
        /\ ops[i].msg.scheduleIndex = "1"
        /\ Len(ops[i].doc.dashboard.relays[1].schedules) = 3
        /\ Len(users[ops[i].target].dashboard.relays[1].schedules) = 2
        /\ users[ops[i].target].dashboard.relays[1].schedules[2] =
              ops[i].doc.dashboard.relays[1].schedules[3]

-----------------------------------------------------------------------------
(* Schedule listing: GET /api/schedules/:deviceId and calculateNextRun       *)

\* the smallest i of 1..7 for which weekday (currentDay + i) % 7 is in days, as
\* the loop finds it; 0 when the loop falls through
DaysToAdd(days, currentDay, from) ==
    IF \E i \in from..7 : ((currentDay + i) % 7) \in days
    THEN CHOOSE i \in from..7 :
            /\ ((currentDay + i) % 7) \in days
            /\ \A q \in from..(i - 1) : ((currentDay + q) % 7) \notin days
    ELSE 0

\* variant: the search for the next matching day starts with today
calculateNextRunFromToday(schedule, t, lag) ==
    LET daysToAdd == DaysToAdd(schedule.days, GetDay(t, lag), 0)
    IN  [date |-> ((t - 60 * 2) \div MinutesPerDay) + daysToAdd,
         time |-> schedule.startTime,
         daysFromNow |-> daysToAdd]

\* calculateNextRun(schedule) called at instant t: currentDay is now.getDay();
\* currentTime is computed and never read; the date is that of toISOString()
\* (the UTC day, two hours behind Africa/Cairo) daysToAdd days on
calculateNextRun(schedule, t, lag) ==
    LET daysToAdd == DaysToAdd(schedule.days, GetDay(t, lag), 1)
    IN  [date |-> ((t - 60 * 2) \div MinutesPerDay) + daysToAdd,
         time |-> schedule.startTime,
         daysFromNow |-> daysToAdd]

\* user.dashboard.relays.flatMap(relay => relay.schedules.map(...)): one entry
\* per schedule, in order, with its relay and its next run
ScheduleEntries(doc, t, lag) ==
    Flatten([j \in 1..Len(doc.dashboard.relays) |->
               [k \in 1..Len(doc.dashboard.relays[j].schedules) |->
                  [relayIndex |-> doc.dashboard.relays[j].index,
                   relayName |-> doc.dashboard.relays[j].name,
                   schedule |-> doc.dashboard.relays[j].schedules[k],
                   nextRun |-> calculateNextRun(doc.dashboard.relays[j].schedules[k],
                                                t, lag)]]])

\* a finished run of the listing route with the body it answered
ListOp(req, target, result, schedules) ==
    [kind |-> "listSchedules", pc |-> "done", msg |-> req, target |-> target,
     result |-> result, at |-> now, doc |-> <<>>,
     solo |-> \A q \in 1..Len(ops) : ops[q].pc = "done", schedules |-> schedules]

\* the listing route: findOne({deviceId}) is answered (404 without an account,
\* 500 when the Store fails) and the entries are computed at the instant the
\* handler resumes
ListSchedules(req) ==
    /\ Len(ops) < MaxOps
    /\ LET id == FindByDevice(users, req.deviceId)
       IN  \/ /\ id = 0
              /\ ops' = Append(ops, ListOp(req, 0, "userNotFound", <<>>))
           \/ /\ id # 0
              /\ ops' = Append(ops, ListOp(req, id, "ok",
                                           ScheduleEntries(users[id], now, serverTzLag)))
           \/ ops' = Append(ops, ListOp(req, 0, "storeError", <<>>))
    /\ UNCHANGED <<users, statuses, connectedDevices, wsClients, readyState,
                   delivered, published, now, serverTzLag, cron, tick, broadcasts>>

-----------------------------------------------------------------------------
(* Schedule listing specification *)

Wednesday == 3 * MinutesPerDay

\* Wednesday 07:59, Wednesday 09:00, Wednesday 00:30 (still Tuesday in UTC)
\* and Tuesday 07:59, all in Africa/Cairo
ListInstants ==
    {Wednesday + 7 * 60 + 59, Wednesday + 9 * 60, Wednesday + 30,
     Wednesday - MinutesPerDay + 7 * 60 + 59}

\* schedules starting at 08:00 (one at 00:10) on various day sets
ListSchedulePool ==
    {Schedule({3}, HHMM(8, 0), HHMM(8, 2), TRUE),
     Schedule({3, 4}, HHMM(8, 0), HHMM(8, 2), TRUE),
     Schedule({1, 3}, HHMM(8, 0), HHMM(8, 2), FALSE),
     Schedule({2}, HHMM(0, 10), HHMM(0, 20), TRUE),
     Schedule({}, HHMM(8, 0), HHMM(8, 2), TRUE)}

ListStores ==
    {<<[NewUser("alice", Hash("pw0", 1), "dev1", 0) EXCEPT
          !.dashboard.relays = <<Relay(0, "pump", "pump.png", TRUE, sl)>>]>> :
       sl \in UNION {[1..k -> ListSchedulePool] : k \in 0..MaxSchedules}}

ListRequests == {[deviceId |-> "dev1"], [deviceId |-> "dev9"]}

InitList ==
    /\ InitQuiet
    /\ users \in ListStores
    /\ now \in ListInstants
    /\ serverTzLag \in TzLags

NextList == \E req \in ListRequests : ListSchedules(req)

SpecList == InitList /\ [][NextList]_vars

-----------------------------------------------------------------------------
(* Properties of calculateNextRun *)

\* the entries answered by the listing runs, each with the instant of its run
ListedEntries ==
    UNION {{[entry |-> ops[i].schedules[n], at |-> ops[i].at] :
              n \in 1..Len(ops[i].schedules)} :
           i \in {q \in 1..Len(ops) : ops[q].kind = "listSchedules"}}

\* the 24-hour "HH:MM" time of instant t in Africa/Cairo
ClockHHMM(t) == HHMM(HourOf(t), MinuteOf(t))

\* C11: when the day set of a schedule contains the current weekday and the
\* current time is before its start time, the next run answered for it has
\* daysFromNow = 0 (the run is today).
C11_TodayBeforeStart ==
    \A e \in ListedEntries :
        (/\ GetDay(e.at, serverTzLag) \in e.entry.schedule.days
         /\ CairoWeekday(e.at) \in e.entry.schedule.days
         /\ StrLess(ClockHHMM(e.at), e.entry.schedule.startTime))
        => e.entry.nextRun.daysFromNow = 0

\* C12: when the day set of a schedule is exactly the current weekday (the one
\* calculateNextRun reads) and the current time is past its start time, the next
\* run answered for it has daysFromNow = 7, not 0.
C12_OnlyTodayPastStart ==
    \A e \in ListedEntries :
        (/\ e.entry.schedule.days = {GetDay(e.at, serverTzLag)}
         /\ StrLess(e.entry.schedule.startTime, ClockHHMM(e.at)))
        => e.entry.nextRun.daysFromNow = 7

\* a listing on a Wednesday at 09:00 of a schedule of Wednesdays, 08:00
C12_Witness ==
    \E e \in ListedEntries :
        /\ e.entry.schedule.days = {3}
        /\ GetDay(e.at, serverTzLag) = 3
        /\ ClockHHMM(e.at) = HHMM(9, 0)
        /\ e.entry.schedule.startTime = HHMM(8, 0)
        /\ e.entry.nextRun.daysFromNow = 7

\* the channel index values held by the relays of account document u
RelayIndexes(u) == {u.dashboard.relays[j].index : j \in 1..Len(u.dashboard.relays)}

\* every handler run so far is a relay-configuration upsert that started after
\* all earlier runs had ended
SequentialUpserts ==
    \A i \in 1..Len(ops) : ops[i].kind = "putRelay" /\ ops[i].solo

\* C13: after relay-configuration upserts applied one after another, each
\* completing before the next starts, the dashboard of an account holds at most
\* one relay entry per channel index value, whatever index values the bodies
\* carried.
C13_OneEntryPerIndex ==
    SequentialUpserts =>
        \A n \in 1..Len(users) :
            Cardinality(RelayIndexes(users[n])) = Len(users[n].dashboard.relays)

\* the step in which save() of relay-configuration run i succeeds for a relay
\* the run found in the document it loaded
PutSaved(i) ==
    /\ ops[i].kind = "putRelay"
    /\ ops[i].pc = "save"
    /\ ops'[i].result = "saved"
    /\ FindRelayStrict(ops[i].doc, ops[i].msg.body.index) # 0

\* run q is another relay-configuration write to the same account and index
\* whose save has been applied and that overlapped run i
Interleaved(i, q) ==
    /\ q # i
    /\ ops[q].kind = "putRelay"
    /\ ops[q].result = "saved"
    /\ ops[q].target = ops[i].target
    /\ ops[q].msg.body.index = ops[i].msg.body.index
    /\ ~(ops[i].solo /\ ops[q].solo)

\* C14: when two relay-configuration writes to the same account and relay index
\* interleave, the save applied last leaves the relay with the name, image and
\* enabled flag of its own write, never with a mixture of the two.
C14_LastWriteWins ==
    [][\A i \in 1..Len(ops) :
          (PutSaved(i) /\ \E q \in 1..Len(ops) : Interleaved(i, q)) =>
             LET j == FindRelayStrict(ops[i].doc, ops[i].msg.body.index)
                 r == users'[ops[i].target].dashboard.relays[j]
             IN  /\ r.name = ops[i].msg.body.name
                 /\ r.image = ops[i].msg.body.image
                 /\ r.enabled = ops[i].msg.body.enabled]_vars

-----------------------------------------------------------------------------
(* Properties of handleUserRegistration *)

\* the step starts a bus registration; its run is the last of ops'
BusRegistrationArrives ==
    /\ Len(ops') = Len(ops) + 1
    /\ ops'[Len(ops')].kind = "busRegister"

\* username, password or deviceId is absent from message m
Absent(m) == \E f \in {"username", "password", "deviceId"} : m[f] = ""

\* C15: a registration bus message without username, password or deviceId has
\* no side effect: the handler ends at once without asking the Store anything,
\* the Store and the cache are unchanged, nothing is broadcast or published,
\* and the run ends as an ordinary return.
C15_IncompleteRegistrationIgnored ==
    [][(BusRegistrationArrives /\ Absent(ops'[Len(ops')].msg)) =>
          /\ ops'[Len(ops')].pc = "done"
          /\ ops'[Len(ops')].result = "invalid"
          /\ ops'[Len(ops')].target = 0
          /\ UNCHANGED <<users, statuses, connectedDevices, delivered, published,
                         broadcasts>>]_vars

\* a message without password for an account that exists has been ignored
C15_Witness ==
    \E i \in 1..Len(ops) :
        /\ ops[i].kind = "busRegister"
        /\ Absent(ops[i].msg)
        /\ ops[i].result = "invalid"
        /\ \E n \in 1..Len(users) : users[n].username = ops[i].msg.username

\* the step in which save() of bus registration i is answered by the Store
BusSaveAnswered(i) ==
    /\ ops[i].kind = "busRegister"
    /\ ops[i].pc = "save"
    /\ ops'[i].pc = "done"
    /\ ops'[i].result # "storeError"

\* C16: a registration bus message that matches an account by username or by
\* device identifier is reconciled with that account, and its save changes
\* only the password of that account: username, device identifier, creation
\* timestamp and dashboard stay, no account is added, every other account is
\* unchanged, and the new password verifies against the message's plaintext.
C16_OnlyPasswordChanges ==
    [][/\ (BusRegistrationArrives /\ ops'[Len(ops')].result = "pending") =>
             ops'[Len(ops')].target = FindExisting(users, ops'[Len(ops')].msg)
       /\ \A i \in 1..Len(ops) :
             (BusSaveAnswered(i) /\ ops[i].target # 0) =>
                 /\ Len(users') = Len(users)
                 /\ \A n \in 1..Len(users) : n # ops[i].target => users'[n] = users[n]
                 /\ users'[ops[i].target] =
                       [users[ops[i].target] EXCEPT
                           !.password = users'[ops[i].target].password]
                 /\ Compare(ops[i].msg.password, users'[ops[i].target].password)]_vars

\* an account holding a relay was matched by device identifier only and now
\* verifies the password of the message
C16_Witness ==
    \E i \in 1..Len(ops) :
        /\ ops[i].kind = "busRegister"
        /\ ops[i].result = "updated"
        /\ users[ops[i].target].username # ops[i].msg.username
        /\ users[ops[i].target].deviceId = ops[i].msg.deviceId
        /\ users[ops[i].target].dashboard.relays # <<>>
        /\ Compare(ops[i].msg.password, users[ops[i].target].password)
        /\ ~Compare("pw0", users[ops[i].target].password)

\* C17: a complete registration bus message that matches no account makes the
\* handler insert one account: it carries the message's username and device
\* identifier, a password that verifies against the plaintext and a dashboard
\* without relays, and every account already stored is unchanged.  The insert
\* is refused only when an account for the message has been stored since the
\* lookup, and then the Store is unchanged.
C17_NewAccountCreated ==
    [][\A i \in 1..Len(ops) :
          (BusSaveAnswered(i) /\ ops[i].target = 0) =>
              IF \E n \in 1..Len(users) : Matches(users[n], ops[i].msg)
              THEN users' = users /\ ops'[i].result = "duplicate"
              ELSE /\ ops'[i].result = "created"
                   /\ Len(users') = Len(users) + 1
                   /\ \A n \in 1..Len(users) : users'[n] = users[n]
                   /\ users'[Len(users')].username = ops[i].msg.username
                   /\ users'[Len(users')].deviceId = ops[i].msg.deviceId
                   /\ Compare(ops[i].msg.password, users'[Len(users')].password)
                   /\ users'[Len(users')].dashboard = [relays |-> <<>>]]_vars

\* a second account was created next to a configured one, which is as before
C17_Witness ==
    \E i \in 1..Len(ops) :
        /\ ops[i].kind = "busRegister"
        /\ ops[i].result = "created"
        /\ Len(users) = 2
        /\ users[1] = ConfiguredUser
        /\ users[2].dashboard.relays = <<>>

-----------------------------------------------------------------------------
(* Properties of the status records *)

\* the step in which the upsert of relay-status run i is applied
UpsertApplied(i) ==
    /\ ops[i].kind = "relayStatus"
    /\ ops[i].pc = "update"
    /\ ops'[i].result = "stored"

RecordsOf(sts, deviceId) == {n \in 1..Len(sts) : sts[n].deviceId = deviceId}

\* record b is record a with state and timer of relay k set as message d says
\* and the timestamp refreshed: the other relays, the other fields of relay k
\* and deviceId, ip, rssi and uptime are those of a
OnlyRelayChanged(a, b, d, at) ==
    /\ b.deviceId = a.deviceId /\ b.ip = a.ip /\ b.rssi = a.rssi /\ b.uptime = a.uptime
    /\ b.timestamp = at
    /\ DOMAIN b.relays = DOMAIN a.relays \cup {d.relay}
    /\ \A p \in DOMAIN a.relays : p # d.relay => b.relays[p] = a.relays[p]
    /\ b.relays[d.relay].state = d.state
    /\ b.relays[d.relay].timer = d.timer
    /\ d.relay \in DOMAIN a.relays =>
          /\ b.relays[d.relay].index = a.relays[d.relay].index
          /\ b.relays[d.relay].name = a.relays[d.relay].name

\* C18: a relay-status message for device d and channel k changes only the
\* state and timer of relay k and the timestamp of one status record of d.
\* Without a record of d, one is created; with one, the number of records
\* stays, every other record is unchanged, and in the record changed the other
\* relays and ip, rssi and uptime are unchanged.
C18_TargetedUpsert ==
    [][\A i \in 1..Len(ops) :
          UpsertApplied(i) =>
              LET d == ops[i].msg
              IN  IF RecordsOf(statuses, d.deviceId) = {}
                  THEN /\ Len(statuses') = Len(statuses) + 1
                       /\ \A q \in 1..Len(statuses) : statuses'[q] = statuses[q]
                       /\ statuses'[Len(statuses')].deviceId = d.deviceId
                       /\ statuses'[Len(statuses')].relays[d.relay].state = d.state
                       /\ statuses'[Len(statuses')].relays[d.relay].timer = d.timer
                  ELSE /\ Len(statuses') = Len(statuses)
                       /\ \E n \in RecordsOf(statuses, d.deviceId) :
                             /\ \A q \in 1..Len(statuses) :
                                   q # n => statuses'[q] = statuses[q]
                             /\ OnlyRelayChanged(statuses[n], statuses'[n], d,
                                                 ops[i].at)]_vars

\* relay 0 of a stored snapshot has been switched on: the record keeps the
\* relay's name and its ip, and another record of the device exists
C18_Witness ==
    \E i \in 1..Len(ops) :
        /\ ops[i].kind = "relayStatus"
        /\ ops[i].result = "stored"
        /\ ops[i].msg.relay = 0
        /\ Cardinality(RecordsOf(statuses, ops[i].msg.deviceId)) >= 2
        /\ \E n \in RecordsOf(statuses, ops[i].msg.deviceId) :
              /\ statuses[n].timestamp = ops[i].at
              /\ statuses[n].relays[0].state = ops[i].msg.state
              /\ statuses[n].relays[0].name = "pump"
              /\ statuses[n].ip = "10.0.0.7"

\* C19: when several status records exist for a device, the relay-status
\* upsert modifies the most recent of them, the one with the greatest
\* timestamp, which is the record the dashboard read returns.
C19_UpsertHitsLatest ==
    [][\A i \in 1..Len(ops) :
          UpsertApplied(i) =>
              \A n \in RecordsOf(statuses, ops[i].msg.deviceId) :
                  statuses'[n] # statuses[n] =>
                      n \in LatestOf(statuses, ops[i].msg.deviceId)]_vars

\* the step in which save() of device-status run i succeeds
SnapshotSaved(i) ==
    /\ ops[i].kind = "deviceStatus"
    /\ ops[i].pc = "save"
    /\ ops'[i].pc = "saved"

\* C20: a device-status message whose persistence succeeds adds exactly one
\* record, holding the full snapshot, after the records already stored and
\* modifies or removes none of them; every such message adds one more record.
C20_SnapshotAppendOnly ==
    [][\A i \in 1..Len(ops) :
          SnapshotSaved(i) =>
              /\ Len(statuses') = Len(statuses) + 1
              /\ \A q \in 1..Len(statuses) : statuses'[q] = statuses[q]
              /\ LET r == statuses'[Len(statuses')]
                     d == ops[i].msg
                 IN  /\ r.deviceId = d.deviceId /\ r.ip = d.ip /\ r.rssi = d.rssi
                     /\ r.uptime = d.uptime /\ r.relays = d.relays]_vars

\* two snapshots of a device that had records already have both been stored
C20_Witness ==
    \E i, j \in 1..Len(ops) :
        /\ i < j
        /\ ops[i].kind = "deviceStatus" /\ ops[i].result = "stored"
        /\ ops[j].kind = "deviceStatus" /\ ops[j].result = "stored"
        /\ ops[i].msg.deviceId = ops[j].msg.deviceId
        /\ Cardinality(RecordsOf(statuses, ops[i].msg.deviceId)) >= 3

-----------------------------------------------------------------------------
(* Properties of the fanout *)

\* the events of the broadcastToWebSockets calls a step makes, in order
NewEvents ==
    [n \in 1..(Len(broadcasts') - Len(broadcasts)) |->
        [type |-> broadcasts'[Len(broadcasts) + n].type,
         data |-> broadcasts'[Len(broadcasts) + n].data]]

\* C21: a broadcast writes its event exactly once to every socket of the set
\* whose readyState is OPEN when the broadcast is made and writes nothing to
\* any other socket; what a socket has received grows by nothing else, so an
\* event a socket was skipped for never reaches it later.
C21_BroadcastToOpenOnly ==
    [][/\ Len(broadcasts') >= Len(broadcasts)
       /\ \A c \in DOMAIN delivered :
             delivered'[c] =
                 IF c \in wsClients /\ readyState[c] = "OPEN"
                 THEN delivered[c] \o NewEvents
                 ELSE delivered[c]
       /\ \A c \in DOMAIN delivered' \ DOMAIN delivered : delivered'[c] = <<>>]_vars

\* a broadcast made while one socket of the set was open and received it and
\* another socket of the set was closing and has received nothing
C21_Witness ==
    \E n \in 1..Len(broadcasts) :
        \E c \in broadcasts[n].to :
            \E x \in wsClients \ broadcasts[n].to :
                /\ readyState[x] = "CLOSING"
                /\ delivered[x] = <<>>
                /\ \E k \in 1..Len(delivered[c]) :
                      delivered[c][k] = [type |-> broadcasts[n].type,
                                         data |-> broadcasts[n].data]

\* C32: a broadcast tolerates sockets that close or fail around it: a socket
\* that has left the set or is no longer open is skipped, the handler run that
\* broadcasts goes on as if every socket had been written to, and every
\* socket of the set that is open receives the events, whatever the state of
\* the others.
C32_BroadcastToleratesRemoval ==
    [][NewEvents # <<>> =>
          /\ \A c \in wsClients :
                readyState[c] = "OPEN" => delivered'[c] = delivered[c] \o NewEvents
          /\ \A c \in DOMAIN delivered :
                (c \notin wsClients \/ readyState[c] # "OPEN")
                    => delivered'[c] = delivered[c]
          /\ LET i == broadcasts'[Len(broadcasts')].op
             IN  /\ ops'[i].result \in {"pending", "stored"}
                 /\ ops'[i].pc \in {"update", "done"}
          /\ UNCHANGED <<wsClients, readyState>>]_vars

\* a snapshot was broadcast after one socket had failed and left the set: the
\* other socket received it and has closed since, the failed one received
\* nothing, and the handler run ended well
C32_Witness ==
    \E n \in 1..Len(broadcasts) :
        \E c \in broadcasts[n].to :
            \E x \in DOMAIN readyState :
                /\ x \notin wsClients
                /\ readyState[x] = "CLOSING"
                /\ delivered[x] = <<>>
                /\ readyState[c] = "CLOSED"
                /\ delivered[c] = <<[type |-> broadcasts[n].type,
                                     data |-> broadcasts[n].data]>>
                /\ broadcasts[n].type = "device_status"
                /\ ops[broadcasts[n].op].result = "stored"

\* C22: wsClients is the set of the sockets that have connected and have since
\* neither closed nor failed: a 'connection' event adds the socket, a 'close'
\* or an 'error' event removes it, the 'close' event of a socket its 'error'
\* event already removed changes nothing, and no other step touches the set.
C22_SetOfLiveSockets ==
    [][/\ \A c \in Sockets :
             /\ WsConnect(c) => wsClients' = wsClients \cup {c}
             /\ WsClose(c) => wsClients' = wsClients \ {c}
             /\ WsError(c) => wsClients' = wsClients \ {c}
             /\ (WsClose(c) /\ c \notin wsClients) => wsClients' = wsClients
       /\ (\A c \in Sockets : ~WsConnect(c) /\ ~WsClose(c) /\ ~WsError(c))
             => wsClients' = wsClients
       /\ wsClients' \subseteq {c \in DOMAIN readyState' : readyState'[c] # "CLOSED"}]_vars

\* a socket has failed and is out of the set while its 'close' event is still
\* to come, and another socket is in the set
C22_Witness ==
    \E c \in DOMAIN readyState :
        /\ readyState[c] = "CLOSING"
        /\ c \notin wsClients
        /\ wsClients # {}

-----------------------------------------------------------------------------
(* Bus client: mqttClient.on('message') *)

\* the topics subscribed to on 'connect'
Topics == {"green-tech/credentials", "green-tech/relay-status",
           "green-tech/device-status"}

\* a payload JSON.parse rejects
MalformedPayload == "{deviceId:"

\* variant: the text that could not be parsed is passed on to the sockets
MalformedEventsRaw(topic, payload) == <<[type |-> "raw", data |-> payload]>>

\* the events broadcast for a message JSON.parse rejects: the catch block of
\* the listener only logs
MalformedEvents(topic, payload) == <<>>

\* a message whose payload JSON.parse rejects: the exception is thrown before
\* the dispatch on the topic and the catch block logs it
MalformedMessage(topic, payload) ==
    /\ Len(ops) < MaxOps
    /\ ops' = Append(ops, Op("mqttMessage", "done",
                             [topic |-> topic, payload |-> payload], 0, "parseError"))
    /\ broadcastToWebSockets(MalformedEvents(topic, payload), Len(ops) + 1)
    /\ UNCHANGED <<users, statuses, connectedDevices, wsClients, readyState,
                   published, now, serverTzLag, cron, tick>>

-----------------------------------------------------------------------------
(* Bus specification: well-formed and malformed messages, one socket *)

BusSocket == "ws1"

\* a registration on green-tech/credentials that lacks its password
BusRegMessages == {Credentials("alice", "", "dev1")}

BusRelayStatusMessages == {[deviceId |-> "dev1", relay |-> 0, state |-> TRUE, timer |-> 0]}

BusDeviceStatusMessages == {Snapshot("dev1", 5)}

InitBus ==
    /\ InitQuiet
    /\ users = <<ConfiguredUser>>
    /\ now = Monday + 8 * 60
    /\ serverTzLag = 0

NextBus ==
    \/ \E topic \in Topics : MalformedMessage(topic, MalformedPayload)
    \/ \E m \in BusRegMessages : RegisterStart("busRegister", m)
    \/ \E data \in BusRelayStatusMessages : RelayStatusStart(data)
    \/ \E i \in 1..Len(ops) : RelayStatusPersist(i)
    \/ \E data \in BusDeviceStatusMessages : DeviceStatusStart(data)
    \/ \E i \in 1..Len(ops) : DeviceStatusPersist(i)
    \/ \E i \in 1..Len(ops) : DeviceStatusPublish(i)
    \/ WsConnect(BusSocket)

SpecBus == InitBus /\ [][NextBus]_vars

-----------------------------------------------------------------------------
(* Process specification: bus messages, an HTTP call and ticks side by side *)

ProcessTopic == "green-tech/device-status"

ProcessReadRequests == {[deviceId |-> "dev1"]}

NextProcess ==
    \/ MalformedMessage(ProcessTopic, MalformedPayload)
    \/ \E m \in BusRegMessages : RegisterStart("busRegister", m)
    \/ \E data \in BusRelayStatusMessages : RelayStatusStart(data)
    \/ \E i \in 1..Len(ops) : RelayStatusPersist(i)
    \/ \E req \in ProcessReadRequests : ListSchedules(req)
    \/ CronFire
    \/ TickEvaluate
    \/ TickFail

\* the process has been up for a while: all but TicksLeft of the ticks have
\* fired, the last one a minute before the configured schedule opens
InitProcess ==
    /\ statuses = <<>>
    /\ connectedDevices = EmptyMap
    /\ wsClients = {}
    /\ readyState = EmptyMap
    /\ delivered = EmptyMap
    /\ published = <<>>
    /\ users = <<ConfiguredUser>>
    /\ now = Monday + 7 * 60 + 59
    /\ serverTzLag = 0
    /\ cron = [armed |-> TRUE, fired |-> MaxTicks - TicksLeft, errors |-> 0]
    /\ tick = [status |-> "ok", day |-> GetDay(now, serverTzLag),
               time |-> ToLocaleTimeString(now), at |-> now, cmds |-> <<>>]
    /\ ops = <<>>
    /\ broadcasts = <<>>

SpecProcess == InitProcess /\ [][NextProcess]_vars

-----------------------------------------------------------------------------
(* Properties of the bus listener *)

\* the step is the arrival of a message whose payload could not be parsed
Dropped ==
    /\ Len(ops') = Len(ops) + 1
    /\ ops'[Len(ops')].kind = "mqttMessage"

\* C23: a bus message whose payload cannot be parsed is dropped: its arrival
\* starts no handler run and leaves the accounts, the status records, the
\* device cache, the sockets and what they have received unchanged, with
\* nothing broadcast and nothing published; afterwards every well-formed
\* message can still arrive and start its handler.
C23_MalformedDropped ==
    /\ [][Dropped =>
             /\ ops' = Append(ops, ops'[Len(ops')])
             /\ ops'[Len(ops')].pc = "done"
             /\ ops'[Len(ops')].result = "parseError"
             /\ UNCHANGED <<users, statuses, connectedDevices, wsClients, readyState,
                            delivered, broadcasts, published, cron, tick>>]_vars
    /\ []((Len(ops) < MaxOps /\ \E i \in 1..Len(ops) : ops[i].kind = "mqttMessage")
             => /\ \A data \in BusRelayStatusMessages : ENABLED RelayStatusStart(data)
                /\ \A data \in BusDeviceStatusMessages : ENABLED DeviceStatusStart(data)
                /\ \A m \in BusRegMessages : ENABLED RegisterStart("busRegister", m))

\* after a dropped message, a device snapshot was stored, cached and broadcast,
\* and it is all the open socket has received
C23_Witness ==
    \E i \in 1..Len(ops) :
        \E j \in (i + 1)..Len(ops) :
            /\ ops[i].kind = "mqttMessage"
            /\ ops[j].kind = "deviceStatus"
            /\ ops[j].result = "stored"
            /\ statuses = <<NewDeviceStatus(ops[j].msg, ops[j].at)>>
            /\ BusSocket \in wsClients
            /\ delivered[BusSocket] = <<[type |-> "device_status", data |-> ops[j].msg]>>

-----------------------------------------------------------------------------
(* Properties of the process *)

\* the outcomes of a handler run that met a failure
Failures == {"parseError", "invalid", "storeError"}

\* handler run i ended in a failure
Failed(i) == ops[i].result \in Failures

\* C24: no failure of a handler run or of a tick stops the process: a run that
\* failed has ended in its own catch block, the cron job stays armed, and
\* after any failure every bus message and the HTTP call can still arrive and
\* the next tick can still fire; a message handled after a failure is stored
\* as if nothing had failed.
C24_FailuresContained ==
    /\ cron.armed
    /\ \A i \in 1..Len(ops) : Failed(i) => ops[i].pc = "done"
    /\ Len(ops) < MaxOps =>
          /\ ENABLED MalformedMessage(ProcessTopic, MalformedPayload)
          /\ \A m \in BusRegMessages : ENABLED RegisterStart("busRegister", m)
          /\ \A data \in BusRelayStatusMessages : ENABLED RelayStatusStart(data)
          /\ \A req \in ProcessReadRequests : ENABLED ListSchedules(req)
    /\ (cron.fired < MaxTicks /\ tick.status # "finding") => ENABLED CronFire
    /\ \A j \in 1..Len(ops) :
          (ops[j].kind = "relayStatus" /\ ops[j].result = "stored")
              => \E n \in 1..Len(statuses) :
                    /\ statuses[n].deviceId = ops[j].msg.deviceId
                    /\ statuses[n].relays[ops[j].msg.relay].state = ops[j].msg.state

\* a handler run failed and a tick failed; a later relay-status message was
\* stored and a later tick ran to its end and published a command
C24_Witness ==
    /\ cron.errors > 0
    /\ tick.status = "ok"
    /\ tick.cmds # <<>>
    /\ \E i \in 1..Len(ops) :
          \E j \in (i + 1)..Len(ops) :
              /\ Failed(i)
              /\ ops[j].kind = "relayStatus"
              /\ ops[j].result = "stored"

-----------------------------------------------------------------------------
(* Relay control route: POST /api/relay/:deviceId/:relayIndex *)

\* the route takes action and duration from the body, calls controlRelay with
\* parseInt of the relay parameter and answers success; a body without
\* duration leaves the parameter to its default, null
RelayControl(req) ==
    /\ Len(ops) < MaxOps
    /\ published' = controlRelay(published, req.deviceId, ParseInt(req.relayIndex),
                                 req.body.action, req.body.duration)
    /\ ops' = Append(ops, Op("relayControl", "done", req, 0, "ok"))
    /\ UNCHANGED <<users, statuses, connectedDevices, wsClients, readyState,
                   delivered, now, serverTzLag, cron, tick, broadcasts>>

-----------------------------------------------------------------------------
(* HTTP specification: every device route, for a device with an account and *)
(* for one without                                                          *)

Devices == {"dev1", "dev9"}

\* bodies of the relay control call: without duration, with one, with 0
ControlBodies ==
    {[action |-> "on", duration |-> <<>>],
     [action |-> "off", duration |-> <<30>>],
     [action |-> "on", duration |-> <<0>>]}

RelayControlRequests ==
    {[deviceId |-> d, relayIndex |-> "0", body |-> b] : d \in Devices, b \in ControlBodies}
    \cup {[deviceId |-> "dev1", relayIndex |-> "abc",
           body |-> [action |-> "on", duration |-> <<>>]]}

HttpPutRequests ==
    {[deviceId |-> d,
      body |-> [index |-> JsonNumber(0), name |-> "lamp", image |-> "pump.png",
                enabled |-> TRUE]] : d \in Devices}

HttpAddRequests ==
    {[deviceId |-> d, relayIndex |-> "0",
      body |-> Schedule({2}, HHMM(23, 0), HHMM(1, 0), TRUE)] : d \in Devices}

HttpDeleteRequests ==
    {[deviceId |-> d, relayIndex |-> "0", scheduleIndex |-> "0"] : d \in Devices}

HttpReadRequests == {[deviceId |-> d] : d \in Devices}

InitHttp ==
    /\ InitQuiet
    /\ users = <<ConfiguredUser>>
    /\ now = Monday
    /\ serverTzLag = 0

NextHttp ==
    \/ \E req \in HttpReadRequests : DashboardReadStart(req)
    \/ \E i \in 1..Len(ops) : DashboardReadStatus(i)
    \/ \E req \in HttpPutRequests : DashStart("putRelay", req)
    \/ \E req \in HttpAddRequests : DashStart("addSchedule", req)
    \/ \E req \in HttpDeleteRequests : DashStart("deleteSchedule", req)
    \/ \E i \in 1..Len(ops) : DashSave(i)
    \/ \E req \in HttpReadRequests : ListSchedules(req)
    \/ \E req \in RelayControlRequests : RelayControl(req)

SpecHttp == InitHttp /\ [][NextHttp]_vars

-----------------------------------------------------------------------------
(* Properties of the HTTP routes *)

HttpKinds == {"dashboardRead", "putRelay", "addSchedule", "deleteSchedule",
              "listSchedules", "relayControl"}

\* the handler runs that start or move in the step
Moved == {i \in 1..Len(ops') : i > Len(ops) \/ ops'[i] # ops[i]}

\* C25: an HTTP call for a device identifier that matches no account is
\* answered not found (or with a server error when the lookup itself fails)
\* and has no side effect: no account and no status record is written and no
\* command is published.
C25_UnknownDeviceNotFound ==
    [][\A i \in Moved :
          (ops'[i].kind \in HttpKinds /\ FindByDevice(users, ops'[i].msg.deviceId) = 0)
              => /\ ops'[i].pc = "done"
                 /\ ops'[i].result \in {"userNotFound", "storeError"}
                 /\ UNCHANGED <<users, statuses, published>>]_vars

\* the step is a relay control call
Controls ==
    /\ Len(ops') = Len(ops) + 1
    /\ ops'[Len(ops')].kind = "relayControl"

\* C27: controlRelay publishes exactly one message, with the deviceId, the
\* relay index (written as null when parseInt gave NaN) and the action it was
\* given; the message has a duration field exactly when a duration was given,
\* and then with that value; the call changes no account, no status record, no
\* cache entry and no socket state, broadcasts nothing, and is over when the
\* route answers: nothing is awaited.
C27_OneCommandPerCall ==
    [][Controls =>
          LET req == ops'[Len(ops')].msg
              m == published'[Len(published')]
              relayIndex == ParseInt(req.relayIndex)
          IN  /\ published' = Append(published, m)
              /\ m.deviceId = req.deviceId
              /\ m.action = req.body.action
              /\ IF relayIndex = NaN THEN m.relay = "null" ELSE m.relay = relayIndex
              /\ ("duration" \in DOMAIN m) <=> (req.body.duration # <<>>)
              /\ req.body.duration # <<>> => m.duration = req.body.duration[1]
              /\ DOMAIN m \subseteq {"deviceId", "relay", "action", "duration"}
              /\ ops'[Len(ops')].pc = "done"
              /\ UNCHANGED <<users, statuses, connectedDevices, wsClients, readyState,
                             delivered, broadcasts>>]_vars

\* two calls have been made: the first with duration 0, whose message carries
\* it, the second without, whose message has no duration field
C27_Witness ==
    /\ Len(published) = 2
    /\ "duration" \in DOMAIN published[1]
    /\ published[1].duration = 0
    /\ "duration" \notin DOMAIN published[2]
    /\ \A i \in 1..Len(ops) : ops[i].kind = "relayControl"

-----------------------------------------------------------------------------
(* Maintenance: POST /admin/clear-old-data *)

\* 60 * 60 * 1000 milliseconds, in minutes
OneHour == 60

\* variant: a record exactly one hour old is deleted too
ExpiredInclusive(record, oneHourAgo) == record.timestamp <= oneHourAgo

\* {timestamp: {$lt: oneHourAgo}}
Expired(record, oneHourAgo) == record.timestamp < oneHourAgo

\* the records deleteMany leaves
RECURSIVE Kept(_, _)
Kept(sts, oneHourAgo) ==
    IF sts = <<>>
    THEN <<>>
    ELSE IF Expired(Head(sts), oneHourAgo)
         THEN Kept(Tail(sts), oneHourAgo)
         ELSE <<Head(sts)>> \o Kept(Tail(sts), oneHourAgo)

\* the call arrives: oneHourAgo is taken from Date.now() and deleteMany awaited
PurgeStart ==
    /\ Len(ops) < MaxOps
    /\ ops' = Append(ops, Op("purge", "delete", [oneHourAgo |-> now - OneHour], 0,
                             "pending"))
    /\ UNCHANGED <<users, statuses, connectedDevices, wsClients, readyState,
                   delivered, published, now, serverTzLag, cron, tick, broadcasts>>

\* deleteMany is answered: the matching records are gone, or the Store fails
PurgeApply(i) ==
    /\ ops[i].kind = "purge"
    /\ ops[i].pc = "delete"
    /\ \/ /\ statuses' = Kept(statuses, ops[i].msg.oneHourAgo)
          /\ ops' = [ops EXCEPT ![i] = Finish(@, "purged")]
       \/ /\ statuses' = statuses
          /\ ops' = [ops EXCEPT ![i] = Finish(@, "storeError")]
    /\ UNCHANGED <<users, connectedDevices, wsClients, readyState, delivered,
                   published, now, serverTzLag, cron, tick, broadcasts>>

-----------------------------------------------------------------------------
(* Retention specification: old and recent records, bus traffic and ticks *)

PurgeEpoch == Monday + 7 * 60 + 59

\* records of 61, 60 and 59 minutes before the first instant
PurgeStore ==
    <<NewDeviceStatus(Snapshot("dev1", 1), PurgeEpoch - 61),
      NewDeviceStatus(Snapshot("dev2", 2), PurgeEpoch - 60),
      NewDeviceStatus(Snapshot("dev1", 3), PurgeEpoch - 59)>>

InitPurge ==
    /\ statuses = PurgeStore
    /\ connectedDevices = EmptyMap
    /\ wsClients = {}
    /\ readyState = EmptyMap
    /\ delivered = EmptyMap
    /\ published = <<>>
    /\ users = <<ConfiguredUser>>
    /\ now = PurgeEpoch
    /\ serverTzLag = 0
    /\ cron = [armed |-> TRUE, fired |-> MaxTicks - TicksLeft, errors |-> 0]
    /\ tick = [status |-> "ok", day |-> GetDay(now, serverTzLag),
               time |-> ToLocaleTimeString(now), at |-> now, cmds |-> <<>>]
    /\ ops = <<>>
    /\ broadcasts = <<>>

NextPurge ==
    \/ PurgeStart
    \/ \E i \in 1..Len(ops) : PurgeApply(i)
    \/ \E data \in BusRelayStatusMessages : RelayStatusStart(data)
    \/ \E i \in 1..Len(ops) : RelayStatusPersist(i)
    \/ \E data \in BusDeviceStatusMessages : DeviceStatusStart(data)
    \/ \E i \in 1..Len(ops) : DeviceStatusPersist(i)
    \/ \E i \in 1..Len(ops) : DeviceStatusPublish(i)
    \/ CronFire
    \/ TickEvaluate
    \/ TickFail

SpecPurge == InitPurge /\ [][NextPurge]_vars

-----------------------------------------------------------------------------
(* Properties of retention *)

\* the step in which deleteMany of purge run i is applied
Purged(i) ==
    /\ ops[i].kind = "purge"
    /\ ops[i].pc = "delete"
    /\ ops'[i].result = "purged"

\* the positions of the records of sts older than an hour at instant t
OlderThanAnHour(sts, t) == {n \in 1..Len(sts) : sts[n].timestamp < t - 60}

\* C28: the purge deletes exactly the records whose timestamp is more than one
\* hour before the time of the call and keeps every other record as it is; a
\* step that is not the purge removes no record, whatever messages and ticks
\* are handled.
C28_PurgeExactlyOld ==
    [][/\ \A i \in 1..Len(ops) :
             Purged(i) =>
                 LET old == OlderThanAnHour(statuses, ops[i].at)
                     left == [n \in 1..Len(statuses) |->
                                Cardinality({q \in 1..n : q \notin old})]
                 IN  /\ Len(statuses') = Len(statuses) - Cardinality(old)
                     /\ \A n \in 1..Len(statuses) :
                           n \notin old => statuses'[left[n]] = statuses[n]
       /\ (\A i \in 1..Len(ops) : ~Purged(i)) =>
             /\ Len(statuses') >= Len(statuses)
             /\ \A n \in 1..Len(statuses) :
                   statuses'[n].deviceId = statuses[n].deviceId]_vars

\* a purge called a minute after the first instant has deleted the records of
\* 61 and 60 minutes before it and kept the one that was exactly an hour old
\* at the call
C28_Witness ==
    \E i \in 1..Len(ops) :
        /\ ops[i].kind = "purge"
        /\ ops[i].result = "purged"
        /\ ops[i].at = PurgeEpoch + 1
        /\ statuses = <<NewDeviceStatus(Snapshot("dev1", 3), ops[i].at - 60)>>

-----------------------------------------------------------------------------
(* Properties of handleDeviceStatus *)

\* the device_status broadcasts a step makes
NewSnapshotBroadcasts ==
    {n \in (Len(broadcasts) + 1)..Len(broadcasts') : broadcasts'[n].type = "device_status"}

\* the step in which save() of device-status run i is rejected
SnapshotRejected(i) ==
    /\ ops[i].kind = "deviceStatus"
    /\ ops[i].pc = "save"
    /\ ops'[i].result \in {"storeError", "invalid"}

\* C29: a device-status message is persisted, then cached, then broadcast:
\* when its device_status event is broadcast, the insert of the snapshot was
\* applied in an earlier step and a record of it is in the Store, and the
\* cache entry of the device holds the payload; when save() is rejected the
\* cache is left as it was.
C29_PersistCacheBroadcast ==
    [][/\ \A n \in NewSnapshotBroadcasts :
             LET i == broadcasts'[n].op
                 data == broadcasts'[n].data
             IN  /\ ops[i].pc = "saved"
                 /\ ops[i].msg = data
                 /\ \E k \in 1..Len(statuses) :
                       /\ statuses[k].deviceId = data.deviceId
                       /\ statuses[k].uptime = data.uptime
                       /\ statuses[k].ip = data.ip
                 /\ data.deviceId \in DOMAIN connectedDevices'
                 /\ connectedDevices'[data.deviceId].data = data
       /\ \A i \in 1..Len(ops) :
             SnapshotRejected(i) => connectedDevices' = connectedDevices]_vars

\* one snapshot of the device was stored, cached and broadcast to an open
\* socket; the save of another was rejected and the cache holds the first
C29_Witness ==
    \E i \in 1..Len(ops) :
        \E j \in 1..Len(ops) :
            /\ ops[i].kind = "deviceStatus" /\ ops[i].result = "stored"
            /\ ops[j].kind = "deviceStatus" /\ ops[j].result = "storeError"
            /\ i < j
            /\ connectedDevices[ops[i].msg.deviceId].data = ops[i].msg
            /\ \E n \in BroadcastsOf(i, "device_status") : broadcasts[n].to # {}

-----------------------------------------------------------------------------
(* Concurrent writers specification: a registration on the bus and dashboard *)
(* edits for the device of one account                                       *)

RaceRegMessages == {Credentials("alice", "pw2", "dev1")}

\* a new name for relay 0, and a relay the account does not have yet
RacePutRequests ==
    {[deviceId |-> "dev1",
      body |-> [index |-> JsonNumber(0), name |-> "lamp", image |-> "pump.png",
                enabled |-> TRUE]],
     [deviceId |-> "dev1",
      body |-> [index |-> JsonNumber(1), name |-> "fan", image |-> "fan.png",
                enabled |-> TRUE]]}

RaceAddRequests ==
    {[deviceId |-> "dev1", relayIndex |-> "0",
      body |-> Schedule({2}, HHMM(23, 0), HHMM(1, 0), TRUE)]}

RaceDeleteRequests == {[deviceId |-> "dev1", relayIndex |-> "0", scheduleIndex |-> "0"]}

InitRace ==
    /\ InitQuiet
    /\ users = <<ConfiguredUser>>
    /\ now = Monday
    /\ serverTzLag = 0

NextRace ==
    \/ \E m \in RaceRegMessages : RegisterStart("busRegister", m)
    \/ \E i \in 1..Len(ops) : RegisterSave(i)
    \/ \E req \in RacePutRequests : DashStart("putRelay", req)
    \/ \E req \in RaceAddRequests : DashStart("addSchedule", req)
    \/ \E req \in RaceDeleteRequests : DashStart("deleteSchedule", req)
    \/ \E i \in 1..Len(ops) : DashSave(i)

SpecRace == InitRace /\ [][NextRace]_vars

-----------------------------------------------------------------------------
(* Properties of concurrent writers *)

DashKinds == {"putRelay", "addSchedule", "deleteSchedule"}

\* the step in which the save of run j is applied
SaveApplied(j) ==
    /\ ops[j].pc = "save"
    /\ ops'[j].result \in {"saved", "updated"}

\* runs i and j are a dashboard edit and a bus registration for one account,
\* the later of the two started before the earlier had ended, and the save of
\* run i has been applied
Raced(i, j) ==
    /\ i # j
    /\ ops[i].target = ops[j].target
    /\ \/ ops[i].kind \in DashKinds /\ ops[j].kind = "busRegister"
       \/ ops[i].kind = "busRegister" /\ ops[j].kind \in DashKinds
    /\ ~ops[Max(i, j)].solo
    /\ ops[i].result \in {"saved", "updated"}

\* C30 as stated: when a dashboard edit and a bus registration for the same
\* device both read the account and then both save, the second save is a write
\* of the whole document as its run loaded it, so that the effect of the first
\* save is gone: the password is again the one the edit loaded, or the
\* dashboard is no longer the one the edit stored.
C30_LostUpdate ==
    [][\A i \in 1..Len(ops) : \A j \in 1..Len(ops) :
          (Raced(i, j) /\ SaveApplied(j)) =>
              LET id == ops[j].target
              IN  IF ops[i].kind = "busRegister"
                  THEN users'[id].password = ops[j].doc.password
                  ELSE users'[id].dashboard # users[id].dashboard]_vars

\* C30, amended: no update is lost between a dashboard edit and a bus
\* registration for the same device, however their reads and saves
\* interleave: the save of the registration changes the password of the
\* account and nothing else, the save of an edit leaves username, password
\* and device identifier of every account as they are, and the registration
\* is never refused for its version; an edit is refused for its version only
\* when another edit has been saved.
C30_BothWritesKept ==
    /\ [][\A j \in 1..Len(ops) :
             SaveApplied(j) =>
                 IF ops[j].kind = "busRegister"
                 THEN /\ Len(users') = Len(users)
                      /\ \A id \in 1..Len(users) :
                            /\ users'[id].dashboard = users[id].dashboard
                            /\ users'[id].username = users[id].username
                            /\ users'[id].deviceId = users[id].deviceId
                            /\ users'[id].v = users[id].v
                            /\ id # ops[j].target => users'[id] = users[id]
                 ELSE /\ Len(users') = Len(users)
                      /\ \A id \in 1..Len(users) :
                            /\ users'[id].password = users[id].password
                            /\ users'[id].username = users[id].username
                            /\ users'[id].deviceId = users[id].deviceId]_vars
    /\ [](\A j \in 1..Len(ops) :
             /\ ops[j].kind = "busRegister" => ops[j].result # "versionError"
             /\ ops[j].result = "versionError" =>
                   \E q \in 1..Len(ops) :
                       q # j /\ ops[q].kind \in DashKinds /\ ops[q].result = "saved")

\* a registration and a rename of relay 0 both read the account and then both
\* saved; the account has the new password and the new name
C30_Witness ==
    \E i \in 1..Len(ops) : \E j \in 1..Len(ops) :
        /\ Raced(i, j)
        /\ ops[j].result \in {"saved", "updated"}
        /\ ops[i].kind = "putRelay"
        /\ users[ops[i].target].password.plain = "pw2"
        /\ users[ops[i].target].dashboard.relays[1].name = "lamp"

-----------------------------------------------------------------------------
(* Properties of concurrent schedule edits *)

ScheduleKinds == {"addSchedule", "deleteSchedule"}

\* runs i and j are a delete and another delete or an add on the schedule list
\* of one relay of one account, both went on to save, and both loaded the
\* account at the same version: neither had saved when the other read
SameListEdits(i, j) ==
    /\ i # j
    /\ ops[i].kind = "deleteSchedule"
    /\ ops[j].kind \in ScheduleKinds
    /\ ops[i].target = ops[j].target
    /\ ops[i].msg.relayIndex = ops[j].msg.relayIndex
    /\ ops[i].doc # <<>>
    /\ ops[j].doc # <<>>
    /\ ops[i].doc.v = ops[j].doc.v

\* the schedule list of the relay of run i in document doc
ListOf(doc, i) ==
    doc.dashboard.relays[FindRelay(doc, ParseInt(ops[i].msg.relayIndex))].schedules

-----------------------------------------------------------------------------
(* Overnight specification: schedules are added to a relay while ticks run *)

Tuesday == 2 * MinutesPerDay

\* instants just before 05:30 and just before 22:00 of a Tuesday
OvernightInstants == {Tuesday + 5 * 60 + 29, Tuesday + 21 * 60 + 59}

\* a window from 22:00 to 06:00, and one of three minutes in the early morning
OvernightBodies ==
    {Schedule({2}, HHMM(22, 0), HHMM(6, 0), TRUE),
     Schedule({2}, HHMM(5, 30), HHMM(5, 32), TRUE)}

OvernightRequests ==
    {[deviceId |-> "dev1", relayIndex |-> "0", body |-> b] : b \in OvernightBodies}

\* an account whose relay 0 has no schedule yet
OvernightStore ==
    <<[NewUser("alice", Hash("pw0", 1), "dev1", 0) EXCEPT
         !.dashboard.relays = <<Relay(0, "pump", "pump.png", TRUE, <<>>)>>]>>

\* the process has run for a while: the last TicksLeft ticks are ahead
InitOvernight ==
    /\ statuses = <<>>
    /\ connectedDevices = EmptyMap
    /\ wsClients = {}
    /\ readyState = EmptyMap
    /\ delivered = EmptyMap
    /\ published = <<>>
    /\ cron = [armed |-> TRUE, fired |-> MaxTicks - TicksLeft, errors |-> 0]
    /\ tick = NoTick
    /\ ops = <<>>
    /\ broadcasts = <<>>
    /\ users = OvernightStore
    /\ now \in OvernightInstants
    /\ serverTzLag = 0

NextOvernight ==
    \/ \E req \in OvernightRequests : DashStart("addSchedule", req)
    \/ \E i \in 1..Len(ops) : DashSave(i)
    \/ CronFire
    \/ TickEvaluate
    \/ TickFail

SpecOvernight == InitOvernight /\ [][NextOvernight]_vars

-----------------------------------------------------------------------------
(* Properties of overnight windows *)

\* the end of the window is before its start
Overnight(s) == StrLess(s.endTime, s.startTime)

\* the live schedules of store us that are not overnight and name day d
DayWindows(us, d) ==
    {p \in SchedulePositions(us) :
        Live(us, p) /\ ~Overnight(ScheduleAt(us, p)) /\ d \in ScheduleAt(us, p).days}

\* C34: the add-schedule route stores the startTime and endTime of the body
\* as they are, whatever their order (every request for an existing relay
\* reaches save(), and a save applied appends the pair), and an enabled
\* schedule whose startTime is after its endTime causes no command: a tick
\* over a store whose live schedules are all of that kind publishes nothing,
\* and in general publishes no more commands than there are live schedules of
\* the day whose startTime is not after their endTime.
C34_OvernightNeverCommands ==
    [][
        /\ \A i \in 1..Len(ops) :
              (ops[i].kind = "addSchedule" /\ ops[i].pc = "save"
                 /\ ops'[i].result = "saved")
              => LET rel == users'[ops[i].target].dashboard.relays[
                                FindRelay(ops[i].doc, ParseInt(ops[i].msg.relayIndex))]
                 IN  /\ Len(rel.schedules) >= 1
                     /\ rel.schedules[Len(rel.schedules)].startTime
                          = ops[i].msg.body.startTime
                     /\ rel.schedules[Len(rel.schedules)].endTime
                          = ops[i].msg.body.endTime
        /\ (Len(ops') = Len(ops) + 1 /\ ops'[Len(ops')].kind = "addSchedule"
              /\ ops'[Len(ops')].target # 0
              /\ ops'[Len(ops')].result # "relayNotFound")
           => ops'[Len(ops')].pc = "save"
        /\ (tick.status = "finding" /\ tick'.status = "ok")
           => /\ Len(published') - Len(published)
                   <= Cardinality(DayWindows(users, tick.day))
              /\ tick'.cmds = SubSeq(published', Len(published) + 1, Len(published'))
    ]_vars

\* an overnight schedule and an ordinary one are both stored and enabled, and
\* a tick in the early morning, inside 22:00-06:00 taken around midnight,
\* published the one command of the ordinary schedule
C34_Witness ==
    /\ tick.status = "ok"
    /\ tick.time = <<48, 53, 58, 51, 48, 32, 65, 77>>
    /\ Len(tick.cmds) = 1
    /\ \E p \in SchedulePositions(users) :
          Live(users, p) /\ ScheduleAt(users, p).startTime = HHMM(22, 0)
             /\ ScheduleAt(users, p).endTime = HHMM(6, 0)
    /\ \E p \in SchedulePositions(users) :
          Live(users, p) /\ ScheduleAt(users, p).startTime = HHMM(5, 30)

-----------------------------------------------------------------------------
(* Properties of the relay-configuration route *)

\* the step in which save() of relay-configuration run i is applied, no other
\* run having touched the account since run i loaded it
RelayUpsertApplied(i) ==
    /\ ops[i].kind = "putRelay"
    /\ ops[i].pc = "save"
    /\ ops'[i].result = "saved"
    /\ ops[i].doc = users[ops[i].target]

\* relay lists a and b differ at most in the name, image and enabled flag of
\* entry j, which are those of the body
UpdatedInPlace(a, b, j, body) ==
    /\ Len(b) = Len(a)
    /\ \A k \in 1..Len(a) : k # j => b[k] = a[k]
    /\ b[j] = [a[j] EXCEPT !.name = body.name, !.image = body.image,
                           !.enabled = body.enabled]

\* C35: a relay-configuration upsert whose index is the index of a stored
\* relay entry updates that entry in place (same position, same schedules,
\* same number of relays), and an upsert whose index no entry has appends one
\* entry with an empty schedule list and leaves the others unchanged; the
\* index of the upsert is the number the body's index is stored as.
C35_UpsertInPlaceOrAppend ==
    [][\A i \in 1..Len(ops) :
          RelayUpsertApplied(i) =>
             LET a == users[ops[i].target].dashboard.relays
                 b == users'[ops[i].target].dashboard.relays
                 body == ops[i].msg.body
                 j == FindRelay(users[ops[i].target], CastNumber(body.index))
             IN  IF j # 0
                 THEN UpdatedInPlace(a, b, j, body)
                 ELSE b = Append(a, Relay(CastNumber(body.index), body.name,
                                          body.image, body.enabled, <<>>))]_vars

-----------------------------------------------------------------------------
(* Properties of the delete-schedule route *)

\* C36: a delete-schedule call whose position is not a position of the
\* relay's schedule list, because it is at or past the length of the list or
\* because it is not a number, removes nothing: the save that is applied
\* leaves the list as it was.
C36_InvalidPositionRemovesNothing ==
    [][\A i \in 1..Len(ops) :
          (DeleteSaved(i) /\ ops[i].doc = users[ops[i].target]) =>
             LET id == ops[i].target
                 j == FindRelay(users[id], ParseInt(ops[i].msg.relayIndex))
                 k == ParseInt(ops[i].msg.scheduleIndex)
                 before == users[id].dashboard.relays[j].schedules
                 after == users'[id].dashboard.relays[j].schedules
             IN  (k = NaN \/ k >= Len(before)) => after = before]_vars

-----------------------------------------------------------------------------
(* Properties of a tick *)

\* the step belongs to a tick: the callback starts, or its scan is answered
TickStep == tick' # tick

\* C37: a scheduler tick changes no account, no status record, no entry of
\* the connected-device cache and not the set of sockets (nor what they were
\* sent), whatever schedules match; its only effect outside the scheduler is
\* the commands it publishes.
C37_TickReadOnly ==
    [][TickStep =>
          /\ UNCHANGED <<users, statuses, connectedDevices, wsClients, readyState,
                         delivered, broadcasts, ops>>
          /\ \E cmds \in {<<>>, tick'.cmds} : published' = published \o cmds]_vars

\* a tick has published a command while the Store holds status records written
\* since the start and the cache holds a snapshot
C37_Witness ==
    /\ tick.status = "ok"
    /\ tick.cmds # <<>>
    /\ published # <<>>
    /\ users # <<>>
    /\ Len(statuses) > Len(PurgeStore)
    /\ "dev1" \in DOMAIN connectedDevices

-----------------------------------------------------------------------------
(* Properties of POST /api/register *)

\* the step is one of API registration run i of ops': the call arrives and its
\* lookup is answered, or its save() is answered
ApiRegisterStep(i) ==
    /\ ops'[i].kind = "apiRegister"
    /\ i > Len(ops) \/ ops'[i] # ops[i]

\* an account of store us has the username or the device identifier of m
Taken(us, m) ==
    \E n \in 1..Len(us) : us[n].username = m.username \/ us[n].deviceId = m.deviceId

\* C38: the API registration call never changes an account that exists: no
\* step of the call alters an account in the Store, and when the submitted
\* username or device identifier is that of an account the step ends the call
\* with an error and leaves the Store as it was; the password of that account
\* is not overwritten.
C38_ApiRegisterKeepsExisting ==
    [][\A i \in 1..Len(ops') :
          ApiRegisterStep(i) =>
             /\ Len(users') >= Len(users)
             /\ \A n \in 1..Len(users) : users'[n] = users[n]
             /\ Taken(users, ops'[i].msg) =>
                   /\ users' = users
                   /\ ops'[i].pc = "done"
                   /\ ops'[i].result \in {"invalid", "exists", "duplicate",
                                          "storeError"}]_vars

\* an API call with the credentials of an existing account and another
\* password was refused and the account keeps its password, after a bus
\* registration with the same credentials had overwritten it
C38_Witness ==
    \E i \in 1..Len(ops) : \E j \in 1..Len(ops) :
        /\ ops[j].kind = "busRegister"
        /\ ops[j].result = "updated"
        /\ ops[i].kind = "apiRegister"
        /\ ops[i].result = "exists"
        /\ ops[i].target = ops[j].target
        /\ ops[i].msg.password # ops[j].msg.password
        /\ Compare(ops[j].msg.password, users[ops[i].target].password)

=============================================================================
